---- MODULE Spec2Model ----
(***************************************************************************)
(* Black Hole GPU: the per-pixel geodesic ray marcher, the accretion-disk  *)
(* radiative model with its relativistic shading functions, and the host's *)
(* per-frame post-processing pipeline.                                     *)
(*                                                                         *)
(* Floats are modelled in fixed point: the float x is the integer          *)
(* floor(x * Scale).  The results of shading arithmetic that the shader    *)
(* can drive to a non-finite value (a division by zero, the square root of *)
(* a negative number) are the sentinels NaN, PInf and NInf.                *)
(***************************************************************************)
EXTENDS Integers, Sequences, FiniteSets, TLC

\* ------------------------------------------------------------------------
\* Fixed-point arithmetic
\* ------------------------------------------------------------------------

Scale == 10 * 10 * 10
One == Scale
Fx(n, d) == (n * Scale) \div d          \* the float n/d

Abs(x) == IF x < 0 THEN -x ELSE x
Min(a, b) == IF a < b THEN a ELSE b
Max(a, b) == IF a > b THEN a ELSE b

\* a * b, splitting the larger factor so that no intermediate leaves 32 bits
MulSplit(a, b) == (a \div Scale) * b + ((a % Scale) * b) \div Scale
Mul(a, b) == IF Abs(a) >= Abs(b) THEN MulSplit(a, b) ELSE MulSplit(b, a)

\* a / b for b > 0
DivPos(a, b) ==
    IF b < 2 * Scale * Scale
    THEN (a \div b) * Scale + ((a % b) * Scale) \div b
    ELSE (a \div b) * Scale + ((a % b) * 10) \div (b \div 100)
\* a / b for b # 0
Div(a, b) == IF b > 0 THEN DivPos(a, b) ELSE DivPos(-a, -b)

RECURSIVE ISqrtIter(_, _, _)
ISqrtIter(n, lo, hi) ==
    IF lo >= hi THEN lo
    ELSE LET mid == (lo + hi + 1) \div 2
         IN  IF mid * mid <= n THEN ISqrtIter(n, mid, hi)
                               ELSE ISqrtIter(n, lo, mid - 1)
\* floor of the integer square root; 46340^2 is the largest square in 32 bits
ISqrt(n) == ISqrtIter(n, 0, 46340)
\* sqrt(x) for x >= 0
Sqrt(x) == IF x < 2 * Scale * Scale THEN ISqrt(x * Scale) ELSE ISqrt(x * 10) * 10

\* ------------------------------------------------------------------------
\* Non-finite floats (shading arithmetic only)
\* ------------------------------------------------------------------------

Big == 2 * (10 ^ 9)
PInf == Big
NInf == -Big
NaN == Big + 1
IsNaN(x) == x = NaN
Finite(x) == x > NInf /\ x < PInf
Sign(x) == IF x > 0 THEN 1 ELSE IF x < 0 THEN -1 ELSE 0
InfOf(s) == IF s > 0 THEN PInf ELSE NInf

FNeg(a) == IF IsNaN(a) THEN NaN ELSE -a
FAdd(a, b) ==
    IF IsNaN(a) \/ IsNaN(b) THEN NaN
    ELSE IF Finite(a) /\ Finite(b) THEN a + b
    ELSE IF Finite(a) THEN b
    ELSE IF Finite(b) THEN a
    ELSE IF a = b THEN a ELSE NaN
FSub(a, b) == FAdd(a, FNeg(b))
FMul(a, b) ==
    IF IsNaN(a) \/ IsNaN(b) THEN NaN
    ELSE IF Finite(a) /\ Finite(b) THEN Mul(a, b)
    ELSE IF a = 0 \/ b = 0 THEN NaN
    ELSE InfOf(Sign(a) * Sign(b))
FDiv(a, b) ==
    IF IsNaN(a) \/ IsNaN(b) THEN NaN
    ELSE IF Finite(a) /\ Finite(b)
         THEN IF b # 0 THEN Div(a, b)
              ELSE IF a = 0 THEN NaN ELSE InfOf(Sign(a))
    ELSE IF Finite(b) THEN InfOf(Sign(a) * (IF b < 0 THEN -1 ELSE 1))
    ELSE IF Finite(a) THEN 0
    ELSE NaN
FSqrt(a) ==
    IF IsNaN(a) \/ a < 0 THEN NaN
    ELSE IF a = PInf THEN PInf
    ELSE Sqrt(a)
\* a < b as the shader evaluates it: false when either side is NaN
FLt(a, b) == ~IsNaN(a) /\ ~IsNaN(b) /\ a < b

\* ------------------------------------------------------------------------
\* float3
\* ------------------------------------------------------------------------

Vec(x, y, z) == <<x, y, z>>
Zero3 == <<0, 0, 0>>
AddV(a, b) == <<a[1] + b[1], a[2] + b[2], a[3] + b[3]>>
SubV(a, b) == <<a[1] - b[1], a[2] - b[2], a[3] - b[3]>>
ScaleV(k, v) == <<Mul(k, v[1]), Mul(k, v[2]), Mul(k, v[3])>>
Dot(a, b) == Mul(a[1], b[1]) + Mul(a[2], b[2]) + Mul(a[3], b[3])
Cross(a, b) == <<Mul(a[2], b[3]) - Mul(a[3], b[2]),
                 Mul(a[3], b[1]) - Mul(a[1], b[3]),
                 Mul(a[1], b[2]) - Mul(a[2], b[1])>>
Length(v) == Sqrt(Dot(v, v))
\* normalize(v) for a vector of non-zero length
Normalize(v) == LET l == Length(v) IN <<Div(v[1], l), Div(v[2], l), Div(v[3], l)>>

\* ------------------------------------------------------------------------
\* Thermal radiation and relativistic shading
\* ------------------------------------------------------------------------

\* Natural units
G == One
M == One
c == One

\* fmin(fmax(x, lo), hi).  With a NaN argument fmax returns the other one, so
\* the precise result is lo; under the shader compiler's fast-math the result
\* is undefined, and keepNaN tells which outcome the device produces.
Clamp(x, lo, hi, keepNaN) ==
    IF IsNaN(x) THEN (IF keepNaN THEN NaN ELSE lo) ELSE Min(Max(x, lo), hi)

\* float4 getBlackBodyColor(float temp)
getBlackBodyColor(temp0, keepNaN) ==
    LET temp == Clamp(temp0, 1000 * One, 40000 * One, keepNaN)
    IN  IF FLt(temp, 3500 * One)
        THEN <<One,
               Fx(3, 10) + Div(Mul(Fx(7, 10), temp - 1000 * One), 2500 * One),
               0, One>>
        ELSE IF FLt(temp, 5000 * One)
        THEN <<One,
               Fx(8, 10) + Div(Mul(Fx(2, 10), temp - 3500 * One), 1500 * One),
               Fx(1, 10) + Div(Mul(Fx(4, 10), temp - 3500 * One), 1500 * One),
               One>>
        ELSE LET t == FDiv(FSub(temp, 5000 * One), 35000 * One)
             IN  <<FSub(One, FMul(Fx(3, 10), t)),
                   FSub(One, FMul(Fx(2, 10), t)),
                   One, One>>

\* float calculateRedShift(float3 pos)
calculateRedShift(pos) ==
    LET dist == Sqrt(Dot(pos, pos))
    IN  IF dist < One THEN 0
        ELSE LET redshift == Sqrt(One - Div(One, dist)) - One
             IN  FDiv(One, One + redshift)

\* The quantity under the square root of the orbital speed:
\* (G*M/r) * (1 - 3*G*M/(r*c*c))
OrbitRadicand(r) ==
    Mul(Div(Mul(G, M), r), One - Div(Mul(3 * One, Mul(G, M)), Mul(r, Mul(c, c))))

FNormalize(v) ==
    LET l == Length(v) IN <<FDiv(v[1], l), FDiv(v[2], l), FDiv(v[3], l)>>
FScaleV(k, v) == <<FMul(k, v[1]), FMul(k, v[2]), FMul(k, v[3])>>
FDot(a, b) == FAdd(FAdd(FMul(a[1], b[1]), FMul(a[2], b[2])), FMul(a[3], b[3]))

\* float calculateDopplerEffect(float3 pos, float3 viewDir)
calculateDopplerEffect(pos, viewDir) ==
    LET r == Length(pos)
    IN  IF r < One THEN One
        ELSE LET velMag == FNeg(FSqrt(OrbitRadicand(r)))
                 velDir == FNormalize(Cross(<<0, One, 0>>, pos))
                 vel == FScaleV(velMag, velDir)
                 beta_s == <<FDiv(vel[1], c), FDiv(vel[2], c), FDiv(vel[3], c)>>
                 gamma == FDiv(One, FSqrt(FSub(One, FDot(beta_s, beta_s))))
             IN  FMul(gamma, FAdd(One, FDot(vel, FNormalize(viewDir))))

\* float calculateRealisticTemperature(float3 pos, float baseTemp):
\* baseTemp * pow(radius, -0.75), with radius^0.75 = sqrt(radius) * sqrt(sqrt(radius))
calculateRealisticTemperature(pos, baseTemp) ==
    LET radius == Length(pos)
    IN  FDiv(baseTemp, Mul(Sqrt(radius), Sqrt(Sqrt(radius))))

\* ------------------------------------------------------------------------
\* Geodesic integrators
\* ------------------------------------------------------------------------

\* float3 acceleration(float h2, float3 pos, float gravityStrength):
\* -1.5 * h2 * pos / pow(dot(pos, pos), 2.5) * gravityStrength.  The divisor
\* r2^2.5 is applied as its factors r2, r2 and sqrt(r2).  The law performs no
\* clamping: it is defined here for pos # 0 only.
acceleration(h2, pos, gravityStrength) ==
    LET r2 == Dot(pos, pos)
        r == Sqrt(r2)
        k == Mul(-Fx(3, 2), h2)
        comp(x) == Mul(Div(Div(Div(Mul(k, x), r2), r2), r), gravityStrength)
    IN  <<comp(pos[1]), comp(pos[2]), comp(pos[3])>>

\* void verlet(pos, h2, dir, dt, gravityStrength); at: where the law was evaluated
verlet(pos, h2, dir, dt, g) ==
    LET a == acceleration(h2, pos, g)
        pos_new == AddV(AddV(pos, ScaleV(dt, dir)), ScaleV(Mul(dt, dt), ScaleV(Fx(1, 2), a)))
        a_new == acceleration(h2, pos_new, g)
    IN  [pos |-> pos_new,
         dir |-> AddV(dir, ScaleV(dt, ScaleV(Fx(1, 2), AddV(a, a_new)))),
         at |-> <<pos, pos_new>>]

\* (k1 + 2*k2 + 2*k3 + k4) / 6 * dt
Rk4Sum(k1, k2, k3, k4, dt) ==
    LET s == AddV(AddV(k1, k4), AddV(AddV(k2, k2), AddV(k3, k3)))
    IN  ScaleV(dt, <<s[1] \div 6, s[2] \div 6, s[3] \div 6>>)

\* void rk4(pos, h2, dir, dt, gravityStrength); at: where the law was evaluated
rk4(pos, h2, dir, dt, g) ==
    LET half == Fx(1, 2)
        k1_pos == dir
        k1_vel == acceleration(h2, pos, g)
        k2_pos == AddV(dir, ScaleV(dt, ScaleV(half, k1_vel)))
        p2 == AddV(pos, ScaleV(dt, ScaleV(half, k1_pos)))
        k2_vel == acceleration(h2, p2, g)
        k3_pos == AddV(dir, ScaleV(dt, ScaleV(half, k2_vel)))
        p3 == AddV(pos, ScaleV(dt, ScaleV(half, k2_pos)))
        k3_vel == acceleration(h2, p3, g)
        k4_pos == AddV(dir, ScaleV(dt, k3_vel))
        p4 == AddV(pos, ScaleV(dt, k3_pos))
        k4_vel == acceleration(h2, p4, g)
    IN  [pos |-> AddV(pos, Rk4Sum(k1_pos, k2_pos, k3_pos, k4_pos, dt)),
         dir |-> AddV(dir, Rk4Sum(k1_vel, k2_vel, k3_vel, k4_vel, dt)),
         at |-> <<pos, p2, p3, p4>>]

\* ------------------------------------------------------------------------
\* Parameter Block (Uniforms) as the host builds it
\* ------------------------------------------------------------------------

\* Number of pixels along each axis of the output surface
Res == 2
\* snoise(v): simplex noise in [-1, 1]; the values a sample may take
NoiseSamples == {-One, One}
\* snoise(float3(0.0)): the value of the noise function at the origin
SnoiseAtOrigin == -Fx(412, 1000)
\* What the members of _uniforms that the constructor never assigns may hold
Unassigned ==
    [integration_method : {0, 1}, disk_enabled : BOOLEAN, beaming_enabled : BOOLEAN]
AllSet == [integration_method |-> 1, disk_enabled |-> TRUE, beaming_enabled |-> TRUE]

\* Renderer::Renderer: the fields the constructor assigns, applyVisualPreset(0)
\* included.  integration_method, disk_enabled and beaming_enabled are not
\* assigned: they hold what the memory held.
ConstructedUniforms(held) ==
    [gravity |-> Fx(5, 2),
     disk_radius |-> 5 * One,
     disk_thickness |-> Fx(68, 100),
     black_hole_size |-> Fx(12, 100),
     camera_distance |-> 8 * One,
     observer_position |-> <<0, 0, 8 * One>>,
     integration_method |-> held.integration_method,
     disk_enabled |-> held.disk_enabled,
     beaming_enabled |-> held.beaming_enabled,
     background_redshift |-> TRUE,
     quality_preset |-> 2,
     max_iterations |-> 256,
     step_size |-> Fx(1, 10),
     adaptive_stepping |-> TRUE]

\* A variant of the presets whose Ultra marches 2048 iterations
applyQualityPresetDeep(u, preset) ==
    CASE preset = 0 -> [u EXCEPT !.quality_preset = preset, !.max_iterations = 128,
                                 !.step_size = Fx(15, 100), !.adaptive_stepping = FALSE]
      [] preset = 1 -> [u EXCEPT !.quality_preset = preset, !.max_iterations = 192,
                                 !.step_size = Fx(12, 100), !.adaptive_stepping = TRUE]
      [] preset = 2 -> [u EXCEPT !.quality_preset = preset, !.max_iterations = 256,
                                 !.step_size = Fx(1, 10), !.adaptive_stepping = TRUE]
      [] OTHER -> [u EXCEPT !.quality_preset = preset, !.max_iterations = 2048,
                            !.step_size = Fx(8, 100), !.adaptive_stepping = TRUE]

\* void Renderer::applyQualityPreset(int preset)
applyQualityPreset(u, preset) ==
    CASE preset = 0 -> [u EXCEPT !.quality_preset = preset, !.max_iterations = 128,
                                 !.step_size = Fx(15, 100), !.adaptive_stepping = FALSE]
      [] preset = 1 -> [u EXCEPT !.quality_preset = preset, !.max_iterations = 192,
                                 !.step_size = Fx(12, 100), !.adaptive_stepping = TRUE]
      [] preset = 2 -> [u EXCEPT !.quality_preset = preset, !.max_iterations = 256,
                                 !.step_size = Fx(1, 10), !.adaptive_stepping = TRUE]
      [] preset = 3 -> [u EXCEPT !.quality_preset = preset, !.max_iterations = 512,
                                 !.step_size = Fx(8, 100), !.adaptive_stepping = TRUE]
      [] OTHER -> [u EXCEPT !.quality_preset = preset]

\* The "Advanced Settings" sliders: Max Iterations 64..1024, Step Size 0.05..0.2,
\* and the Adaptive Stepping checkbox
SetAdvanced(u, iters, step, adaptive) ==
    [u EXCEPT !.max_iterations = iters, !.step_size = step, !.adaptive_stepping = adaptive]

\* The "Quick Presets" buttons of the Physics tab
Gargantua(u) ==
    [u EXCEPT !.gravity = Fx(5, 2), !.disk_radius = 5 * One, !.disk_thickness = Fx(2, 10),
              !.black_hole_size = Fx(12, 100), !.camera_distance = 8 * One]
ThinDisk(u) ==
    [u EXCEPT !.gravity = 3 * One, !.disk_radius = 10 * One, !.disk_thickness = Fx(5, 100),
              !.black_hole_size = Fx(2, 10)]
\* The Event Horizon Size slider, 0.01..1.0
SetBlackHoleSize(u, size) == [u EXCEPT !.black_hole_size = size]
\* The Disk Radius (1.0..20.0), Disk Thickness (0.01..2.0) and Event Horizon
\* Size (0.01..1.0) sliders
SetDisk(u, radius, thickness, size) ==
    [u EXCEPT !.disk_radius = radius, !.disk_thickness = thickness, !.black_hole_size = size]
\* The observer Position (X, Y, Z) sliders, each -10..10
SetObserver(u, p) == [u EXCEPT !.observer_position = p]
\* The "Distance from Black Hole" slider, 3.0..20.0
SetCameraDistance(u, d) == [u EXCEPT !.camera_distance = d]

\* The "Background Redshift" checkbox
SetBackgroundRedshift(u, on) == [u EXCEPT !.background_redshift = on]

\* Parameter Blocks the host can hand to a dispatch: the constructed one, and
\* ones the user reaches from it through the GUI
ShortMarch(u) == SetAdvanced(u, 64, Fx(2, 10), FALSE)
LongMarch(u) == SetAdvanced(u, 1024, Fx(2, 10), FALSE)
ParameterBlocks ==
    UNION {{ConstructedUniforms(m),
            ShortMarch(ConstructedUniforms(m)),
            SetObserver(ShortMarch(ConstructedUniforms(m)), <<0, 0, Fx(1, 2)>>),
            SetBlackHoleSize(applyQualityPreset(Gargantua(ConstructedUniforms(m)), 0),
                             Fx(5, 100))}
           : m \in Unassigned}
      \cup {LongMarch(ThinDisk(ConstructedUniforms(AllSet))),
            SetBackgroundRedshift(ShortMarch(ConstructedUniforms(AllSet)), FALSE)}

\* ------------------------------------------------------------------------
\* Accretion disk model
\* ------------------------------------------------------------------------

diskDensityV == One
diskDensityH == 2 * One
diskNoiseLOD == 4

\* smoothstep(edge0, edge1, x) for edge0 < edge1
smoothstep(edge0, edge1, x) ==
    LET t == Min(Max(Div(x - edge0, edge1 - edge0), 0), One)
    IN  Mul(Mul(t, t), 3 * One - 2 * t)

innerRadius(u) == Mul(u.black_hole_size, 25 * One)
outerRadius(u) == u.disk_radius
yDisk(pos) == Abs(pos[2])
rDisk(pos) == Sqrt(Mul(pos[1], pos[1]) + Mul(pos[3], pos[3]))

\* A variant of the bounds test that also rejects the two edges
OutsideDiskOpen(pos, u) ==
    \/ yDisk(pos) > u.disk_thickness
    \/ rDisk(pos) <= innerRadius(u)
    \/ rDisk(pos) >= outerRadius(u)
\* The bounds test of diskRender: TRUE when the sample is rejected
OutsideDisk(pos, u) ==
    \/ yDisk(pos) > u.disk_thickness
    \/ rDisk(pos) < innerRadius(u)
    \/ rDisk(pos) > outerRadius(u)

\* density before the 0.01 cut: radial falloff, vertical falloff
\* pow(1 - yDisk/thickness, diskDensityV * 2), inner edge
ShapeDensity(pos, u) ==
    LET v == One - Div(yDisk(pos), u.disk_thickness)
        d1 == One - smoothstep(innerRadius(u), outerRadius(u), rDisk(pos))
        d2 == Mul(d1, Mul(v, v))
    IN  Mul(d2, smoothstep(innerRadius(u), Mul(innerRadius(u), Fx(12, 10)), rDisk(pos)))

\* density *= 1.0 / pow(sphericalCoord.x, diskDensityH); density *= 16000.0, with
\* sphericalCoord.x the distance rho from the origin.  The gain is applied before
\* the division to keep the digits of a small density.
FullDensity(pos, u) ==
    LET rho == Length(pos)
    IN  Div(ShapeDensity(pos, u) * 16000, Mul(rho, rho))

\* The octave loop: noise *= 0.5 * snoise(sphericalCoord * pow(float(i), 2.0)) + 0.5
\* for the octaves i < n.  Octave 0 samples the noise at the origin, octave i > 0
\* takes the sample ns[i].
RECURSIVE NoiseProduct(_, _)
NoiseProduct(ns, n) ==
    IF n = 0 THEN One
    ELSE Mul(NoiseProduct(ns, n - 1),
             Mul(Fx(1, 2), IF n = 1 THEN SnoiseAtOrigin ELSE ns[n - 1]) + Fx(1, 2))

\* accretionTempMod as diskRender computes it at pos
DiskTemperature(pos, viewDir) ==
    LET t0 == calculateRealisticTemperature(pos, 7500 * One)
        t1 == FDiv(t0, calculateDopplerEffect(pos, viewDir))
    IN  FDiv(t1, calculateRedShift(pos))

\* color += density * dustColor * alpha * abs(noise) * 0.3
Emission(density, dust, alpha, noise) ==
    FMul(FMul(FMul(FMul(density, dust), alpha), Abs(noise)), Fx(3, 10))

\* alpha *= (1.0 - density * abs(noise) * 0.3)
Absorb(alpha, density, noise) ==
    Mul(alpha, One - Mul(Mul(density, Abs(noise)), Fx(3, 10)))

\* The two early returns of diskRender: outside the bounds, or too thin
DiskSkips(pos, u) == OutsideDisk(pos, u) \/ ShapeDensity(pos, u) < Fx(1, 100)

\* void diskRender(pos, color, alpha, viewDir, time, uniforms): the new color and
\* alpha, for the noise samples ns of this call
diskRender(pos, color, alpha, viewDir, u, ns, keepNaN) ==
    IF DiskSkips(pos, u)
    THEN [color |-> color, alpha |-> alpha]
    ELSE LET density == FullDensity(pos, u)
             noise == NoiseProduct(ns, diskNoiseLOD)
             redshift == calculateRedShift(pos)
             dustColor == getBlackBodyColor(FMul(DiskTemperature(pos, viewDir), redshift),
                                            keepNaN)
         IN  [color |-> [ch \in 1..4 |->
                            FAdd(color[ch], Emission(density, dustColor[ch], alpha, noise))],
              alpha |-> Absorb(alpha, density, noise)]

\* ------------------------------------------------------------------------
\* Ray marcher: one ray of computeShader / rayMarch
\* ------------------------------------------------------------------------

\* One GPU thread of the ray marcher
VARIABLES
    u,          \* the Parameter Block bound to the dispatch
    gid,        \* thread_position_in_grid
    pc,         \* where the thread is
    pos, dir,   \* Ray State
    h2,         \* angularMomentumSquared
    color, alpha,
    i,          \* loop counter of rayMarch
    term,       \* how the marching loop ended
    hist        \* history: what the thread has done so far

\* One evaluation of the shading functions
VARIABLES
    sample,     \* the position and view direction handed to them
    shade       \* what they returned

\* The host's post-processing pipeline
VARIABLES
    rsrc,       \* pipeline states and textures the Renderer holds
    cfg,        \* bloom settings
    fpc,        \* where the frame is
    queue,      \* the command buffer: encoded passes not yet executed
    gpu         \* what the GPU has done in this frame

\* The contents of the textures during one frame
VARIABLES
    opt,        \* the post-processing settings and the scene of the frame
    image,      \* the pixels of each texture
    todo        \* the encoded passes not yet executed

\* The host's parameters from frame to frame
VARIABLES
    host,       \* the Renderer's members: _uniforms and the post-processing settings
    hpc,        \* where Renderer::draw is
    build,      \* the command buffer draw is encoding
    inflight,   \* committed command buffers the GPU has not finished
    frames      \* history: per frame, the members at encoding and at commit, and
                \* what each of its stages read

\* One dispatch of the ray marcher over the scene texture
VARIABLES
    snap,       \* the bytes bound at buffer(0)
    thread,     \* per thread of the grid: where it is, and its fragColor
    out,        \* the output texture
    wlog        \* history: the writes to the output texture

\* One dispatch of the particle collision kernel
VARIABLES
    particles,  \* the particle buffer bound at buffer(0)
    worker,     \* per thread of the grid: where it is, and its locals
    before      \* history: the total momentum when the dispatch began

rayVars == <<u, gid, pc, pos, dir, h2, color, alpha, i, term, hist>>
shadeVars == <<sample, shade>>
frameVars == <<rsrc, cfg, fpc, queue, gpu>>
imageVars == <<opt, image, todo>>
hostVars == <<host, hpc, build, inflight, frames>>
gridVars == <<snap, thread, out, wlog>>
collideVars == <<particles, worker, before>>
vars == <<rayVars, shadeVars, frameVars, imageVars, hostVars, gridVars, collideVars>>

None == <<>>
RayIdle ==
    /\ u = None /\ gid = None /\ pc = "off" /\ pos = None /\ dir = None /\ h2 = 0
    /\ color = None /\ alpha = 0 /\ i = 0 /\ term = "off" /\ hist = None
ShadeIdle == sample = None /\ shade = None
FrameIdle == rsrc = None /\ cfg = None /\ fpc = "off" /\ queue = None /\ gpu = None
ImageIdle == opt = None /\ image = None /\ todo = None
HostIdle ==
    host = None /\ hpc = "off" /\ build = None /\ inflight = None /\ frames = None
GridIdle == snap = None /\ thread = None /\ out = None /\ wlog = None
CollideIdle == particles = None /\ worker = None /\ before = None

\* camera setup of computeShader: the ray origin
CameraPos(uu) ==
    IF Length(uu.observer_position) > Fx(1, 10)
    THEN uu.observer_position
    ELSE <<0, 0, uu.camera_distance>>

\* float3 forward = normalize(target - cameraPos), with the target at the origin
Forward(uu) == Normalize(SubV(Zero3, CameraPos(uu)))
\* cross(up, forward) with up = (0, 1, 0): the vector that is normalised to right
Sideways(uu) == Cross(<<0, One, 0>>, Forward(uu))

\* camera setup of computeShader: the ray direction through pixel g. normalize
\* of the zero vector is 0 / 0 in every component, and what is built from it is
\* not a number either
RayDir(uu, g) ==
    LET uvx == Div((2 * g[1] - Res) * One, Res * One)
        uvy == Div((2 * g[2] - Res) * One, Res * One)
        forward == Forward(uu)
    IN  IF Sideways(uu) = Zero3
        THEN <<NaN, NaN, NaN>>
        ELSE LET right == Normalize(Sideways(uu))
                 trueUp == Cross(forward, right)
             IN  Normalize(AddV(AddV(ScaleV(uvx, right), ScaleV(uvy, trueUp)), forward))

\* float3 h = cross(pos, dir); float h2 = dot(h, h)
AngularMomentumSquared(p, d) == Dot(Cross(p, d), Cross(p, d))

\* A variant of the step size that takes a tenth of the step
CurrentStepSizeTenth(uu, p) == Mul(uu.step_size, Fx(1, 10))
\* The step size of one iteration: adaptive stepping shrinks it below r = 3
CurrentStepSize(uu, p) ==
    IF uu.adaptive_stepping /\ Length(p) < 3 * One
    THEN Mul(uu.step_size, Div(Length(p), 3 * One))
    ELSE uu.step_size

\* A variant of the integrator call that takes the angular momentum from the
\* current position and direction
AdvanceRecomputing(uu, p, d, hh) ==
    LET r == rk4(p, AngularMomentumSquared(p, d), d, CurrentStepSize(uu, p), uu.gravity)
    IN  [pos |-> r.pos, dir |-> r.dir, at |-> r.at, method |-> 1,
         h2 |-> AngularMomentumSquared(p, d)]

\* The integrator call of one iteration: rk4(pos, h2, dir, currentStepSize, gravity)
Advance(uu, p, d, hh) ==
    LET r == rk4(p, hh, d, CurrentStepSize(uu, p), uu.gravity)
    IN  [pos |-> r.pos, dir |-> r.dir, at |-> r.at, method |-> 1, h2 |-> hh]

\* A variant of the loop test that admits one more iteration
LoopContinuesInclusive(k, uu) == k <= uu.max_iterations
\* for (int i = 0; i < maxSteps; ++i)
LoopContinues(k, uu) == k < uu.max_iterations
\* A variant of the capture test with half the radius
CapturedDeep(p) == Dot(p, p) < Fx(1, 4)
\* if (dot(pos, pos) < 1.0) return color;
Captured(p) == Dot(p, p) < One
\* if (alpha < 0.01) break;
Opaque(a) == a < Fx(1, 100)
\* A variant of the escape test with ten times the radius
EscapedBeyond(p) == Length(p) > 1000 * One
\* if (length(pos) > 100.0) break;
Escaped(p) == Length(p) > 100 * One

\* A variant of the loop's exits in which a ray that used up its iterations
\* returns at once
LoopExitReturning(reason) == IF reason = "maxiter" THEN "done" ELSE "background"
\* Where rayMarch goes on when its loop is left by a break or by i reaching
\* maxSteps: the starfield code after the loop
LoopExit(reason) == "background"

InitRay ==
    /\ u \in ParameterBlocks
    /\ gid \in (0..(Res - 1)) \X (0..(Res - 1))
    /\ pc = "launch"
    /\ pos = Zero3 /\ dir = Zero3 /\ h2 = 0
    /\ color = [ch \in 1..4 |-> 0] /\ alpha = One
    /\ i = 0
    /\ term = "marching"
    /\ hist = [steps |-> 0, at |-> None, method |-> -1, h2 |-> -1,
               origin |-> None, dir0 |-> None,
               diskCalls |-> 0, diskAt |-> None, alphaBefore |-> One,
               emitted |-> [ch \in 1..4 |-> 0], background |-> FALSE, skyDir |-> None]
    /\ ShadeIdle /\ FrameIdle /\ ImageIdle /\ HostIdle /\ GridIdle /\ CollideIdle

\* computeShader up to the call of rayMarch, and rayMarch up to its loop
Launch ==
    /\ pc = "launch"
    /\ pos' = CameraPos(u)
    /\ dir' = RayDir(u, gid)
    /\ h2' = AngularMomentumSquared(CameraPos(u), RayDir(u, gid))
    /\ color' = [ch \in 1..4 |-> 0]
    /\ alpha' = One
    /\ i' = 0
    /\ hist' = [hist EXCEPT !.origin = CameraPos(u), !.dir0 = RayDir(u, gid)]
    /\ IF LoopContinues(0, u)
       THEN pc' = "integrate" /\ term' = term
       ELSE pc' = LoopExit("maxiter") /\ term' = "maxiter"
    /\ UNCHANGED <<u, gid, shadeVars, frameVars, imageVars, hostVars, gridVars, collideVars>>

\* adaptive step size and the integrator call
Integrate ==
    /\ pc = "integrate"
    /\ \E r \in {Advance(u, pos, dir, h2)} :
           /\ pos' = r.pos
           /\ dir' = r.dir
           /\ hist' = [hist EXCEPT !.steps = @ + 1, !.at = r.at,
                                   !.method = r.method, !.h2 = r.h2]
    /\ pc' = "capture"
    /\ UNCHANGED <<u, gid, h2, color, alpha, i, term, shadeVars, frameVars, imageVars, hostVars, gridVars, collideVars>>

\* the capture check: return color
CaptureCheck ==
    /\ pc = "capture"
    /\ IF Captured(pos)
       THEN pc' = "done" /\ term' = "captured"
       ELSE pc' = "disk" /\ term' = term
    /\ UNCHANGED <<u, gid, pos, dir, h2, color, alpha, i, hist, shadeVars, frameVars, imageVars, hostVars, gridVars, collideVars>>

\* diskRender(pos, color, alpha, dir, time, uniforms)
DiskRender ==
    /\ pc = "disk"
    /\ IF DiskSkips(pos, u)
       THEN color' = color /\ alpha' = alpha
       ELSE \E ns \in [1..(diskNoiseLOD - 1) -> NoiseSamples], keepNaN \in BOOLEAN :
               \E r \in {diskRender(pos, color, alpha, dir, u, ns, keepNaN)} :
                   color' = r.color /\ alpha' = r.alpha
    /\ hist' = [hist EXCEPT !.diskCalls = @ + 1, !.diskAt = pos, !.alphaBefore = alpha,
                            !.emitted = color']
    /\ pc' = "exits"
    /\ UNCHANGED <<u, gid, pos, dir, h2, i, term, shadeVars, frameVars, imageVars, hostVars, gridVars, collideVars>>

\* the opacity and escape checks, and the loop's ++i and test
ExitChecks ==
    /\ pc = "exits"
    /\ IF Opaque(alpha) THEN pc' = LoopExit("opaque") /\ term' = "opaque" /\ i' = i
       ELSE IF Escaped(pos) THEN pc' = LoopExit("escaped") /\ term' = "escaped" /\ i' = i
       ELSE IF LoopContinues(i + 1, u) THEN pc' = "integrate" /\ term' = term /\ i' = i + 1
       ELSE pc' = LoopExit("maxiter") /\ term' = "maxiter" /\ i' = i + 1
    /\ UNCHANGED <<u, gid, pos, dir, h2, color, alpha, hist, shadeVars, frameVars, imageVars, hostVars, gridVars, collideVars>>

\* float3 applyBackgroundRedshift(float3 color, float3 pos)
applyBackgroundRedshift(col, p) ==
    LET dist == Length(p)
    IN  IF dist < One THEN col
        ELSE LET redshift == Max(0, Sqrt(Max(0, One - Div(One, dist))) - One)
                 factor == Div(One, One + Mul(redshift, Fx(1, 2)))
             IN  <<col[1], Mul(col[2], factor), Mul(col[3], Mul(factor, factor))>>

\* A variant of the sky that halves the green of every star and quarters its blue
SkyColorReddened(p, starNoise, tint) ==
    LET base == <<Fx(5, 1000), Fx(1, 100), Fx(2, 100)>>
        star0 == ScaleV(5 * One, ScaleV(starNoise - Fx(8, 10), <<Fx(8, 10), Fx(9, 10), One>>))
        star == <<star0[1], Mul(star0[2], Fx(1, 2)), Mul(star0[3], Fx(1, 4))>>
        sky == IF starNoise > Fx(8, 10) THEN AddV(base, star) ELSE base
    IN  ScaleV(One + Mul(Fx(3, 10), tint), sky)

\* the sky colour behind the ray, for the noise samples starNoise and tint
SkyColor(p, starNoise, tint) ==
    LET base == <<Fx(5, 1000), Fx(1, 100), Fx(2, 100)>>
        star0 == ScaleV(5 * One, ScaleV(starNoise - Fx(8, 10), <<Fx(8, 10), Fx(9, 10), One>>))
        star == IF Length(p) < 20 * One THEN applyBackgroundRedshift(star0, p) ELSE star0
        sky == IF starNoise > Fx(8, 10) THEN AddV(base, star) ELSE base
    IN  ScaleV(One + Mul(Fx(3, 10), tint), sky)

\* color += float4(skyColor, 1.0) * (1.0 - color.a); color.a = 1.0
AddSky(col, sky) ==
    [ch \in 1..4 |->
        IF ch = 4 THEN One ELSE FAdd(col[ch], FMul(sky[ch], FSub(One, col[4])))]

\* the starfield behind the ray; starNoise and tint are snoise(dir * 50.0) and
\* snoise(dir * 5.0), looked up at the ray's direction
Background ==
    /\ pc = "background"
    /\ \E starNoise \in NoiseSamples, tint \in NoiseSamples :
          color' = AddSky(color, SkyColor(pos, starNoise, tint))
    /\ hist' = [hist EXCEPT !.background = TRUE, !.skyDir = dir]
    /\ pc' = "done"
    /\ UNCHANGED <<u, gid, pos, dir, h2, alpha, i, term, shadeVars, frameVars, imageVars, hostVars, gridVars, collideVars>>

NextRay == Launch \/ Integrate \/ CaptureCheck \/ DiskRender \/ ExitChecks \/ Background

SpecRay == InitRay /\ [][NextRay]_vars

\* ------------------------------------------------------------------------
\* rayMarch on its own: rays handed to it directly
\* ------------------------------------------------------------------------

\* A Parameter Block with gravity 1.0 and the given Advanced Settings and Event
\* Horizon Size, everything else as constructed
UnitGravity(iters, step, adaptive, size) ==
    SetBlackHoleSize(SetAdvanced([ConstructedUniforms(AllSet) EXCEPT !.gravity = One],
                                 iters, step, adaptive), size)

\* Rays to march: from r = 2 straight at the origin, in the disk's plane and
\* along its axis; from r = 20 on the disk's axis, outwards
RadialRays ==
    {[pos |-> <<0, 0, 2 * One>>, dir |-> <<0, 0, -One>>],
     [pos |-> <<0, 2 * One, 0>>, dir |-> <<0, -One, 0>>]}
AxialRays == {[pos |-> <<0, 20 * One, 0>>, dir |-> <<0, One, 0>>]}
Marches ==
    {[u |-> UnitGravity(256, Fx(1, 10), adaptive, size), ray |-> ray] :
        adaptive \in BOOLEAN, size \in {Fx(12, 100), Fx(5, 100)}, ray \in RadialRays}
      \cup {[u |-> uu, ray |-> ray] :
              uu \in {UnitGravity(256, Fx(1, 10), TRUE, Fx(12, 100)),
                      UnitGravity(512, Fx(8, 100), TRUE, Fx(12, 100)),
                      UnitGravity(1024, Fx(2, 10), FALSE, Fx(12, 100))},
              ray \in AxialRays}

InitMarch ==
    /\ \E m \in Marches : u = m.u /\ pos = m.ray.pos /\ dir = m.ray.dir
    /\ gid = None
    /\ pc = "march"
    /\ h2 = 0
    /\ color = [ch \in 1..4 |-> 0] /\ alpha = One
    /\ i = 0
    /\ term = "marching"
    /\ hist = [steps |-> 0, at |-> None, method |-> -1, h2 |-> -1,
               origin |-> pos, dir0 |-> dir,
               diskCalls |-> 0, diskAt |-> None, alphaBefore |-> One,
               emitted |-> [ch \in 1..4 |-> 0], background |-> FALSE, skyDir |-> None]
    /\ ShadeIdle /\ FrameIdle /\ ImageIdle /\ HostIdle /\ GridIdle /\ CollideIdle

\* rayMarch(pos, dir, time, uniforms) up to its loop
March ==
    /\ pc = "march"
    /\ h2' = AngularMomentumSquared(pos, dir)
    /\ IF LoopContinues(0, u)
       THEN pc' = "integrate" /\ term' = term
       ELSE pc' = LoopExit("maxiter") /\ term' = "maxiter"
    /\ UNCHANGED <<u, gid, pos, dir, color, alpha, i, hist, shadeVars, frameVars,
                   imageVars, hostVars, gridVars, collideVars>>

NextMarch == March \/ Integrate \/ CaptureCheck \/ DiskRender \/ ExitChecks \/ Background

SpecMarch == InitMarch /\ [][NextMarch]_vars

\* ------------------------------------------------------------------------
\* The shading functions on their own
\* ------------------------------------------------------------------------

\* Sample coordinates are the multiples of 1/2 up to ShadeGrid / 2
ShadeGrid == 6
ShadePositions ==
    {<<Fx(x, 2), y, Fx(z, 2)>> : x \in 0..ShadeGrid, y \in {0, Fx(1, 10)}, z \in 0..ShadeGrid}
ShadeViewDirs == {<<0, 0, -One>>, <<One, 0, 0>>}
\* Settings of the three disk sliders <<radius, thickness, size>>: the smallest
\* disk, disks whose outer edge is 25 sizes, and disks whose outer edge is less
DiskSliders ==
    {<<One, Fx(1, 100), Fx(1, 100)>>, <<5 * One, Fx(1, 100), Fx(2, 10)>>,
     <<20 * One, 2 * One, Fx(8, 10)>>, <<20 * One, Fx(68, 100), One>>,
     <<5 * One, Fx(2, 10), Fx(5, 10)>>}
DiskBlocks == {SetDisk(ConstructedUniforms(AllSet), d[1], d[2], d[3]) : d \in DiskSliders}
\* The constructed Parameter Block, and one with the Event Horizon Size slider at 0.05
ShadeBlocks ==
    {ConstructedUniforms(AllSet), SetBlackHoleSize(Gargantua(ConstructedUniforms(AllSet)), Fx(5, 100))}
    \cup DiskBlocks

InitShade ==
    /\ sample \in [pos : ShadePositions, viewDir : ShadeViewDirs, u : ShadeBlocks]
    /\ shade = [evaluated |-> {}, redshift |-> 0, doppler |-> 0, temp |-> 0,
                dustColor |-> [ch \in 1..4 |-> 0],
                kelvin |-> 0, blackBody |-> [ch \in 1..4 |-> 0]]
    /\ RayIdle /\ FrameIdle /\ ImageIdle /\ HostIdle /\ GridIdle /\ CollideIdle

\* float redshift = calculateRedShift(pos)
EvalRedShift ==
    /\ "redshift" \notin shade.evaluated
    /\ shade' = [shade EXCEPT !.evaluated = @ \cup {"redshift"},
                              !.redshift = calculateRedShift(sample.pos)]
    /\ UNCHANGED <<sample, rayVars, frameVars, imageVars, hostVars, gridVars, collideVars>>

\* float doppler = calculateDopplerEffect(pos, viewDir)
EvalDoppler ==
    /\ "doppler" \notin shade.evaluated
    /\ shade' = [shade EXCEPT !.evaluated = @ \cup {"doppler"},
                              !.doppler = calculateDopplerEffect(sample.pos, sample.viewDir)]
    /\ UNCHANGED <<sample, rayVars, frameVars, imageVars, hostVars, gridVars, collideVars>>

\* diskRender's temperature and dust colour, for a sample that passes its two
\* early returns
EvalDustColor ==
    /\ "dustColor" \notin shade.evaluated
    /\ ~DiskSkips(sample.pos, sample.u)
    /\ \E keepNaN \in BOOLEAN :
          LET temp == DiskTemperature(sample.pos, sample.viewDir)
          IN  shade' = [shade EXCEPT
                           !.evaluated = @ \cup {"dustColor"},
                           !.temp = temp,
                           !.dustColor = getBlackBodyColor(
                               FMul(temp, calculateRedShift(sample.pos)), keepNaN)]
    /\ UNCHANGED <<sample, rayVars, frameVars, imageVars, hostVars, gridVars, collideVars>>

\* The branch bounds of getBlackBodyColor, in kelvin
ColorBranches == {3500, 5000}
\* A branch bound and the temperature a thousandth of a kelvin below it
Kelvins == {b * One + d : b \in ColorBranches, d \in -1..0}

\* getBlackBodyColor applied to a temperature of its own
EvalBlackBody ==
    /\ "blackBody" \notin shade.evaluated
    /\ \E kelvin \in Kelvins, keepNaN \in BOOLEAN :
          shade' = [shade EXCEPT !.evaluated = @ \cup {"blackBody"},
                                 !.kelvin = kelvin,
                                 !.blackBody = getBlackBodyColor(kelvin, keepNaN)]
    /\ UNCHANGED <<sample, rayVars, frameVars, imageVars, hostVars, gridVars, collideVars>>

NextShade == EvalRedShift \/ EvalDoppler \/ EvalDustColor \/ EvalBlackBody

SpecShade == InitShade /\ [][NextShade]_vars

\* ------------------------------------------------------------------------
\* The host's frame: Renderer::draw and the post-processing passes
\* ------------------------------------------------------------------------

\* Frames drawn in one run
MaxFrames == 2
\* Pipeline states and textures whose creation may fail in one run
MaxAbsent == 1
\* Drawable widths and heights
Widths == {2, 16}
Heights == {4, 16}
\* Positions of the "Bloom Quality" slider, 1..8
IterationChoices == {1, 7}

Psos == {"brightness", "downsample", "upsample", "composite", "tonemapping"}
Scene == <<"scene", 0>>
Brightness == <<"brightness", 0>>
BloomFinal == <<"bloomFinal", 0>>
Final == <<"final", 0>>
Drawable == <<"drawable", 0>>
Down(k) == <<"down", k>>
Up(k) == <<"up", k>>

\* A variant of the pyramid loop that tests the width only
RECURSIVE PyramidLoopWidthOnly(_, _, _, _)
PyramidLoopWidthOnly(k, requestedLevels, width, height) ==
    IF k >= requestedLevels \/ width \div (2 ^ (k + 1)) < 2
    THEN k
    ELSE PyramidLoopWidthOnly(k + 1, requestedLevels, width, height)

\* for (int i = 0; i < requestedLevels; i++) { if (mipWidth < 2 || mipHeight < 2)
\* break; ... actualLevels++; }: the value of actualLevels after the loop
RECURSIVE PyramidLoop(_, _, _, _)
PyramidLoop(k, requestedLevels, width, height) ==
    IF \/ k >= requestedLevels
       \/ width \div (2 ^ (k + 1)) < 2
       \/ height \div (2 ^ (k + 1)) < 2
    THEN k
    ELSE PyramidLoop(k + 1, requestedLevels, width, height)

\* The pyramid loop of createPostProcessingTextures: the levels it creates
ActualLevels(width, height, iterations) ==
    PyramidLoop(0, Max(1, Min(iterations, 8)), width, height)

\* The textures createPostProcessingTextures asks the device for
Wanted(width, height, iterations) ==
    {Scene, Brightness, BloomFinal, Final}
        \cup {Down(k) : k \in 0..(ActualLevels(width, height, iterations) - 1)}
        \cup {Up(k) : k \in 0..(ActualLevels(width, height, iterations) - 1)}

\* void Renderer::createPostProcessingTextures(int width, int height), with
\* failed the textures the device does not deliver
createPostProcessingTextures(r, cf, width, height, failed) ==
    [r EXCEPT !.tex = Wanted(width, height, cf.bloomIterations) \ failed,
              !.allocated = ActualLevels(width, height, cf.bloomIterations),
              !.width = width,
              !.height = height]

\* A texture slot holds a texture; the drawable always does
Held(t, r) == t = Drawable \/ t \in r.tex

\* One encoded pass: the kernel, the textures bound to its texture indices in
\* order (slots, the output last), and the texture whose size is the dispatch
\* grid (dispatchForTexture takes the output texture)
Pass(stage, level, slots) ==
    [stage |-> stage, level |-> level,
     reads |-> {slots[n] : n \in 1..(Len(slots) - 1)}, writes |-> slots[Len(slots)],
     grid |-> slots[Len(slots)], slots |-> slots]
\* A pass that draw encodes itself, with the grid of the scene texture
ScenePass(stage, slots) == [Pass(stage, 0, slots) EXCEPT !.grid = Scene]

\* Width and height of a texture as createPostProcessingTextures describes it:
\* downsample level k is (width >> (k + 1)) x (height >> (k + 1)), upsample level
\* k is (width >> k) x (height >> k), every other texture is width x height
TextureSize(t, r) ==
    IF t[1] = "down" THEN <<r.width \div (2 ^ (t[2] + 1)), r.height \div (2 ^ (t[2] + 1))>>
    ELSE IF t[1] = "up" THEN <<r.width \div (2 ^ t[2]), r.height \div (2 ^ t[2])>>
    ELSE <<r.width, r.height>>

\* The downsample loop of applyBloomEffect: the levels it builds
RECURSIVE BuiltLevels(_, _, _)
BuiltLevels(r, k, levels) ==
    IF k >= levels \/ Down(k) \notin r.tex THEN k ELSE BuiltLevels(r, k + 1, levels)

DownPasses(builtLevels) ==
    [k \in 1..builtLevels |->
        Pass("downsample", k - 1, <<IF k = 1 THEN Brightness ELSE Down(k - 2), Down(k - 1)>>)]

\* The upsample loop of applyBloomEffect from level k down to 0
RECURSIVE UpPasses(_, _, _)
UpPasses(r, k, upPrev) ==
    IF k < 0 THEN [passes |-> <<>>, upPrev |-> upPrev]
    ELSE IF Up(k) \notin r.tex \/ Down(k) \notin r.tex THEN UpPasses(r, k - 1, upPrev)
    ELSE LET rest == UpPasses(r, k - 1, Up(k))
         IN  [passes |-> <<Pass("upsample", k, <<upPrev, Down(k), Up(k)>>)>> \o rest.passes,
              upPrev |-> rest.upPrev]

\* void Renderer::applyBloomEffect(commandBuffer, inputTexture, outputTexture):
\* the passes it encodes
applyBloomEffect(r, cf, src, dst) ==
    IF \/ ~Held(src, r) \/ ~Held(dst, r)
       \/ ~({"brightness", "downsample", "upsample", "composite"} \subseteq r.pso)
       \/ Brightness \notin r.tex
    THEN <<>>
    ELSE LET levels == Min(cf.bloomIterations, r.allocated)
             builtLevels == BuiltLevels(r, 0, levels)
             prev == IF builtLevels = 0 THEN Brightness ELSE Down(builtLevels - 1)
             up == UpPasses(r, builtLevels - 1, prev)
         IN  <<Pass("brightness", 0, <<src, Brightness>>)>>
                 \o DownPasses(builtLevels)
                 \o up.passes
                 \o <<Pass("composite", 0, <<src, up.upPrev, dst>>)>>

\* void Renderer::applyToneMapping(commandBuffer, inputTexture, outputTexture)
applyToneMapping(r, src, dst) ==
    IF "tonemapping" \notin r.pso \/ ~Held(src, r) \/ ~Held(dst, r)
    THEN <<>>
    ELSE <<Pass("tonemapping", 0, <<src, dst>>)>>

\* Renderer::draw, passes 1 to 4: the command buffer it commits
EncodeFrame(r, cf) ==
    <<ScenePass("raymarcher", <<Scene>>)>>
        \o (IF cf.bloomEnabled /\ {"brightness", "downsample", "upsample"} \subseteq r.pso
            THEN applyBloomEffect(r, cf, Scene, BloomFinal)
            ELSE IF "composite" \in r.pso
                 THEN <<ScenePass("composite", <<Scene, Scene, BloomFinal>>)>>
                 ELSE <<>>)
        \o (IF Final \in r.tex
            THEN applyToneMapping(r, BloomFinal, Final)
            ELSE applyToneMapping(r, BloomFinal, Drawable))
        \o (IF Final \in r.tex THEN <<Pass("blit", 0, <<Final, Drawable>>)>> ELSE <<>>)

Absent(r) == Cardinality(Psos \ r.pso)

\* After Renderer::Renderer: initializePostProcessing has created the pipeline
\* states it could and nulled every texture
InitFrame ==
    /\ \E made \in SUBSET Psos :
          /\ Cardinality(Psos \ made) <= MaxAbsent
          /\ rsrc = [pso |-> made, tex |-> {}, allocated |-> 0, dirty |-> TRUE,
                     width |-> 0, height |-> 0, failed |-> 0]
    /\ cfg = [bloomEnabled |-> TRUE, bloomIterations |-> 7]
    /\ fpc = "idle"
    /\ queue = <<>>
    /\ gpu = [frame |-> 0, written |-> {}, fresh |-> {}, ran |-> <<>>,
              stale |-> {}, absentUse |-> {}]
    /\ RayIdle /\ ShadeIdle /\ ImageIdle /\ HostIdle /\ GridIdle /\ CollideIdle

\* Renderer::draw up to the commit: (re)allocate the textures when needed,
\* encode the passes
Draw ==
    /\ fpc = "idle"
    /\ gpu.frame < MaxFrames
    /\ \E width \in Widths, height \in Heights :
          IF rsrc.dirty \/ rsrc.width # width \/ rsrc.height # height
          THEN \E failed \in SUBSET Wanted(width, height, cfg.bloomIterations) :
                  /\ Cardinality(failed) + Absent(rsrc) + rsrc.failed <= MaxAbsent
                  /\ rsrc' = [createPostProcessingTextures(rsrc, cfg, width, height, failed)
                                 EXCEPT !.dirty = FALSE,
                                        !.failed = @ + Cardinality(failed)]
          ELSE rsrc' = rsrc
    /\ queue' = EncodeFrame(rsrc', cfg)
    /\ gpu' = [frame |-> gpu.frame + 1, written |-> {}, fresh |-> {}, ran |-> <<>>,
               stale |-> {}, absentUse |-> {}]
    /\ fpc' = "gpu"
    /\ UNCHANGED <<cfg, rayVars, shadeVars, imageVars, hostVars, gridVars, collideVars>>

\* The pass at the head of the command buffer is one of the given stage
HeadIs(stage) == fpc = "gpu" /\ queue # <<>> /\ Head(queue).stage = stage

\* The GPU runs the pass at the head of the command buffer.  A grid of size
\* zero (its texture is nil) starts no thread; a thread finds in each slot what
\* the host bound there.
ExecuteHead ==
    /\ LET p == Head(queue)
           bound == p.reads \cup {p.writes}
           threads == Held(p.grid, rsrc)
           runs == threads /\ \A t \in bound : Held(t, rsrc)
       IN  gpu' = [gpu EXCEPT
                      !.ran = Append(@, <<p.stage, p.level>>),
                      !.absentUse = IF threads
                                    THEN @ \cup {<<p.stage, t>> :
                                                    t \in {b \in bound : ~Held(b, rsrc)}}
                                    ELSE @,
                      !.stale = @ \cup {<<p.stage, p.level, t>> :
                                           t \in {b \in p.reads : Held(b, rsrc) /\ b \notin gpu.written}},
                      !.written = IF runs THEN @ \cup {p.writes} ELSE @,
                      !.fresh = IF runs /\ p.reads \subseteq gpu.fresh
                                THEN @ \cup {p.writes}
                                ELSE @ \ {p.writes}]
    /\ queue' = Tail(queue)
    /\ UNCHANGED <<rsrc, cfg, fpc, rayVars, shadeVars, imageVars, hostVars, gridVars, collideVars>>

\* computeShader, dispatched over the scene texture
RunRayMarcher ==
    /\ HeadIs("raymarcher")
    /\ ExecuteHead
\* bloom_brightness_pass
RunBrightness ==
    /\ HeadIs("brightness")
    /\ ExecuteHead
\* bloom_downsample
RunDownsample ==
    /\ HeadIs("downsample")
    /\ ExecuteHead
\* bloom_upsample
RunUpsample ==
    /\ HeadIs("upsample")
    /\ ExecuteHead
\* bloom_composite
RunComposite ==
    /\ HeadIs("composite")
    /\ ExecuteHead
\* tonemapping_kernel
RunToneMapping ==
    /\ HeadIs("tonemapping")
    /\ ExecuteHead
\* the blit of the final texture into the drawable
RunBlit ==
    /\ HeadIs("blit")
    /\ ExecuteHead

\* The command buffer has completed and the drawable is presented
Present ==
    /\ fpc = "gpu"
    /\ queue = <<>>
    /\ fpc' = "idle"
    /\ UNCHANGED <<rsrc, cfg, queue, gpu, rayVars, shadeVars, imageVars, hostVars, gridVars, collideVars>>

\* The "Enable Bloom" checkbox
ToggleBloom ==
    /\ fpc = "idle"
    /\ gpu.frame < MaxFrames
    /\ cfg' = [cfg EXCEPT !.bloomEnabled = ~@]
    /\ UNCHANGED <<rsrc, fpc, queue, gpu, rayVars, shadeVars, imageVars, hostVars, gridVars, collideVars>>

\* The "Bloom Quality" slider, shown while bloom is enabled
SetBloomIterations ==
    /\ fpc = "idle"
    /\ gpu.frame < MaxFrames
    /\ cfg.bloomEnabled
    /\ \E n \in IterationChoices \ {cfg.bloomIterations} :
          cfg' = [cfg EXCEPT !.bloomIterations = n]
    /\ rsrc' = [rsrc EXCEPT !.dirty = TRUE]
    /\ UNCHANGED <<fpc, queue, gpu, rayVars, shadeVars, imageVars, hostVars, gridVars, collideVars>>

NextFrame ==
    \/ Draw \/ Present \/ ToggleBloom \/ SetBloomIterations
    \/ RunRayMarcher \/ RunBrightness \/ RunDownsample \/ RunUpsample
    \/ RunComposite \/ RunToneMapping \/ RunBlit

SpecFrame == InitFrame /\ [][NextFrame]_vars

\* ------------------------------------------------------------------------
\* The post-processing kernels on the pixels of one frame
\* ------------------------------------------------------------------------

\* Width and height of the drawable, in pixels
SurfaceSize == 8

\* A pixel is a float4 <<r, g, b, a>>; a texture's contents is a function of gid
Pixels(size) == (0..(size[1] - 1)) \X (0..(size[2] - 1))
Fill(size, p) == [g \in Pixels(size) |-> p]
AddP(a, b) == [ch \in 1..4 |-> a[ch] + b[ch]]
ScaleP(k, a) == [ch \in 1..4 |-> Mul(k, a[ch])]
\* color.a = 1.0
ForceAlpha(a) == <<a[1], a[2], a[3], One>>

\* The texel a sampler with clamp-to-edge addressing fetches
Texel(img, size, x, y) ==
    img[<<Min(Max(x, 0), size[1] - 1), Min(Max(y, 0), size[2] - 1)>>]
\* Linear filtering between the four texels around a position, with weights fx, fy
Bilinear(img, size, x0, y0, fx, fy) ==
    AddP(ScaleP(One - fy, AddP(ScaleP(One - fx, Texel(img, size, x0, y0)),
                               ScaleP(fx, Texel(img, size, x0 + 1, y0)))),
         ScaleP(fy, AddP(ScaleP(One - fx, Texel(img, size, x0, y0 + 1)),
                         ScaleP(fx, Texel(img, size, x0 + 1, y0 + 1)))))
\* texture.sample(textureSampler, uv) with linear filters; (px, py) is uv in
\* texels of the sampled texture, texel n having its centre at n + 0.5
Sample(img, size, px, py) ==
    Bilinear(img, size,
             (px - Scale \div 2) \div Scale, (py - Scale \div 2) \div Scale,
             (px - Scale \div 2) % Scale, (py - Scale \div 2) % Scale)
\* uv = (float2(gid) + 0.5) / output size, in texels of a texture of size inSize
Centre(g, outSize, inSize) == ((2 * g + 1) * inSize * Scale) \div (2 * outSize)
\* The 4-tap filter of the downsample and upsample kernels: 0.25 * the sum of the
\* samples at uv -+ half a texel of the input
FourTap(img, size, cx, cy) ==
    ScaleP(Fx(1, 4),
           AddP(AddP(Sample(img, size, cx - Scale \div 2, cy - Scale \div 2),
                     Sample(img, size, cx + Scale \div 2, cy - Scale \div 2)),
                AddP(Sample(img, size, cx - Scale \div 2, cy + Scale \div 2),
                     Sample(img, size, cx + Scale \div 2, cy + Scale \div 2))))

\* dot(color.rgb, luminanceVector)
Luminance(p) ==
    Mul(p[1], Fx(2125, 10000)) + Mul(p[2], Fx(7154, 10000)) + Mul(p[3], Fx(721, 10000))
\* One thread of bloom_brightness_pass
BrightPixel(p, brightPassThreshold) ==
    ForceAlpha(ScaleP(Sign(Max(0, Luminance(p) - brightPassThreshold)) * One, p))
\* kernel void bloom_brightness_pass
bloom_brightness_pass(inputTexture, outSize, brightPassThreshold) ==
    [g \in Pixels(outSize) |-> BrightPixel(inputTexture[g], brightPassThreshold)]
\* kernel void bloom_downsample
bloom_downsample(inputTexture, inSize, outSize) ==
    [g \in Pixels(outSize) |->
        FourTap(inputTexture, inSize,
                Centre(g[1], outSize[1], inSize[1]), Centre(g[2], outSize[2], inSize[2]))]
\* kernel void bloom_upsample
bloom_upsample(inputTexture, inSize, previousTexture, prevSize, outSize) ==
    [g \in Pixels(outSize) |->
        ForceAlpha(AddP(FourTap(inputTexture, inSize,
                                Centre(g[1], outSize[1], inSize[1]),
                                Centre(g[2], outSize[2], inSize[2])),
                        Sample(previousTexture, prevSize,
                               Centre(g[1], outSize[1], prevSize[1]),
                               Centre(g[2], outSize[2], prevSize[2]))))]
\* A variant of the composite that adds the strength itself
CompositePixelOffset(sceneColor, bloomColor, bloomStrength, tone) ==
    ForceAlpha([ch \in 1..4 |-> Mul(sceneColor[ch], tone) + bloomStrength])
\* One thread of bloom_composite: sceneColor * tone + bloomColor * bloomStrength
CompositePixel(sceneColor, bloomColor, bloomStrength, tone) ==
    ForceAlpha(AddP(ScaleP(tone, sceneColor), ScaleP(bloomStrength, bloomColor)))
\* kernel void bloom_composite
bloom_composite(sceneTexture, bloomTexture, outSize, bloomStrength, tone) ==
    [g \in Pixels(outSize) |->
        CompositePixel(sceneTexture[g], bloomTexture[g], bloomStrength, tone)]

\* float3 aces_tonemap(float3 x), one channel
aces_tonemap(x) ==
    Min(Max(Div(Mul(x, Mul(Fx(251, 100), x) + Fx(3, 100)),
                Mul(x, Mul(Fx(243, 100), x) + Fx(59, 100)) + Fx(14, 100)), 0), One)
\* pow(x, 1.0 / gamma) for gamma 1.0 and 2.0
GammaCorrect(x, gamma) == IF gamma = One THEN x ELSE Sqrt(x)
\* A variant of the kernel that leaves the alpha it computed
ToneMapPixelAllChannels(p, gamma, tonemappingEnabled) ==
    IF tonemappingEnabled
    THEN [ch \in 1..4 |-> GammaCorrect(aces_tonemap(p[ch]), gamma)]
    ELSE p
\* One thread of tonemapping_kernel
ToneMapPixel(p, gamma, tonemappingEnabled) ==
    IF tonemappingEnabled
    THEN ForceAlpha([ch \in 1..4 |-> GammaCorrect(aces_tonemap(p[ch]), gamma)])
    ELSE ForceAlpha(p)
\* kernel void tonemapping_kernel
tonemapping_kernel(inputTexture, outSize, gamma, tonemappingEnabled) ==
    [g \in Pixels(outSize) |-> ToneMapPixel(inputTexture[g], gamma, tonemappingEnabled)]

\* A write to a BGRA8Unorm texture stores each channel as round(clamp(x, 0, 1) * 255)
Unorm8(p) == [ch \in 1..4 |-> (Min(Max(p[ch], 0), One) * 255 + Scale \div 2) \div Scale]
\* The final texture and the drawable are BGRA8Unorm, every other texture is
\* RGBA16Float, which holds the values of the model as they are
Store(t, img) ==
    IF t \in {Final, Drawable} THEN [g \in DOMAIN img |-> Unorm8(img[g])] ELSE img

\* Settings of the GUI's Post-Processing tab
Thresholds == {Fx(1, 2), 2 * One}
Strengths == {0, One}
Gammas == {One, 2 * One}
\* Pixels the ray marcher can write: nothing accumulated (captured at once),
\* black sky, a bright disk, a dim disk with negative alpha left over
Black == <<0, 0, 0, 0>>
ScenePixels == {Black, <<0, 0, 0, One>>, <<2 * One, 2 * One, 2 * One, One>>,
                <<Fx(6, 10), Fx(3, 10), Fx(1, 10), -Fx(7, 10)>>}
SurfaceDims == <<SurfaceSize, SurfaceSize>>
\* Scenes: one pixel value everywhere, or one bright pixel on black
Scenes ==
    {Fill(SurfaceDims, p) : p \in ScenePixels}
        \cup {[g \in Pixels(SurfaceDims) |->
                  IF g = <<0, 0>> THEN <<2 * One, 2 * One, 2 * One, One>> ELSE Black]}
\* What a texture holds before this frame's passes write to it
StalePixel == <<One, One, One, Fx(1, 2)>>

\* The Renderer's resources for the surface, every one of them delivered
SurfaceResources(iterations) ==
    createPostProcessingTextures(
        [pso |-> Psos, tex |-> {}, allocated |-> 0, dirty |-> FALSE,
         width |-> 0, height |-> 0, failed |-> 0],
        [bloomEnabled |-> TRUE, bloomIterations |-> iterations],
        SurfaceSize, SurfaceSize, {})
SizeOf(t) == TextureSize(t, [width |-> SurfaceSize, height |-> SurfaceSize])

InitImage ==
    /\ opt \in [scene : Scenes, threshold : Thresholds, strength : Strengths,
                gamma : Gammas, bloomEnabled : BOOLEAN, tonemappingEnabled : BOOLEAN,
                iterations : IterationChoices]
    /\ image = [t \in SurfaceResources(opt.iterations).tex \cup {Drawable} |->
                   Store(t, Fill(SizeOf(t), StalePixel))]
    /\ todo = EncodeFrame(SurfaceResources(opt.iterations),
                          [bloomEnabled |-> opt.bloomEnabled,
                           bloomIterations |-> opt.iterations])
    /\ RayIdle /\ ShadeIdle /\ FrameIdle /\ HostIdle /\ GridIdle /\ CollideIdle

\* The pass at the head of the command buffer is one of the given stage
NextPassIs(stage) == todo # <<>> /\ Head(todo).stage = stage
\* The pass at the head has run and has left img in its output texture
Holds(img) ==
    /\ image' = [image EXCEPT ![Head(todo).writes] = img]
    /\ todo' = Tail(todo)
    /\ UNCHANGED <<opt, rayVars, shadeVars, frameVars, hostVars, gridVars, collideVars>>
\* The kernel at the head has run, its threads having written the pixels of img
Written(img) == Holds(Store(Head(todo).writes, img))

\* computeShader: every thread writes its pixel of the scene
ShadeScene ==
    /\ NextPassIs("raymarcher")
    /\ Written(opt.scene)
ExtractBrightness ==
    /\ NextPassIs("brightness")
    /\ Written(bloom_brightness_pass(image[Head(todo).slots[1]],
                                     SizeOf(Head(todo).writes), opt.threshold))
Downsample ==
    /\ NextPassIs("downsample")
    /\ Written(bloom_downsample(image[Head(todo).slots[1]], SizeOf(Head(todo).slots[1]),
                                SizeOf(Head(todo).writes)))
Upsample ==
    /\ NextPassIs("upsample")
    /\ Written(bloom_upsample(image[Head(todo).slots[1]], SizeOf(Head(todo).slots[1]),
                              image[Head(todo).slots[2]], SizeOf(Head(todo).slots[2]),
                              SizeOf(Head(todo).writes)))
\* bloom_composite: with the bloom strength, or as draw's copy with strength 0
Composite ==
    /\ NextPassIs("composite")
    /\ Written(bloom_composite(image[Head(todo).slots[1]], image[Head(todo).slots[2]],
                               SizeOf(Head(todo).writes),
                               IF opt.bloomEnabled THEN opt.strength ELSE 0, One))
ToneMap ==
    /\ NextPassIs("tonemapping")
    /\ Written(tonemapping_kernel(image[Head(todo).slots[1]], SizeOf(Head(todo).writes),
                                  opt.gamma, opt.tonemappingEnabled))
\* copyFromTexture: the final texture into the drawable
Blit ==
    /\ NextPassIs("blit")
    /\ Holds(image[Head(todo).slots[1]])

NextImage ==
    \/ ShadeScene \/ ExtractBrightness \/ Downsample \/ Upsample
    \/ Composite \/ ToneMap \/ Blit

SpecImage == InitImage /\ [][NextImage]_vars

\* ------------------------------------------------------------------------
\* The host's parameters from frame to frame
\* ------------------------------------------------------------------------

\* Frames drawn in one run
MaxHostFrames == 3
\* Command buffers committed and not yet completed: nextDrawable hands out no
\* more drawables than the layer has
MaxInFlight == 2

\* The increment of _uniforms.time, 0.01f; time is kept exactly, the rounding of
\* the binary32 sum is left out
TimeIncrement == Fx(1, 100)
\* A variant of the time step that advances twice
AdvanceTimeTwice(t) == t + 2 * TimeIncrement
\* _uniforms.time += 0.01f
AdvanceTime(t) == t + TimeIncrement

\* void Renderer::applyVisualPreset(int preset): the post-processing members
applyVisualPreset(h, preset) ==
    CASE preset = 1 -> [h EXCEPT !.visualPreset = preset, !.bloomStrength = Fx(17, 100),
                                 !.bloomThreshold = Fx(95, 100),
                                 !.tonemapGamma = Fx(23, 10), !.tonemappingEnabled = TRUE]
      [] preset = 2 -> [h EXCEPT !.visualPreset = preset, !.bloomStrength = Fx(7, 100),
                                 !.bloomThreshold = Fx(125, 100),
                                 !.tonemapGamma = Fx(22, 10), !.tonemappingEnabled = TRUE]
      [] OTHER -> [h EXCEPT !.visualPreset = preset, !.bloomStrength = Fx(12, 100),
                            !.bloomThreshold = Fx(98, 100),
                            !.tonemapGamma = Fx(235, 100), !.tonemappingEnabled = TRUE]

\* Renderer::Renderer: time 0, gravity 2.5, the performance parameters,
\* applyVisualPreset(0)
\* struct Uniforms: the members of the Parameter Block
UniformsMembers ==
    {"resolution", "time", "gravity", "disk_radius", "disk_thickness", "black_hole_size",
     "camera_distance", "integration_method", "orbit_type", "disk_enabled", "doppler_enabled",
     "redshift_enabled", "beaming_enabled", "realistic_temp", "accretion_temperature",
     "observer_position", "observer_velocity", "show_orbiting_star", "star_orbit_radius",
     "star_orbit_speed", "star_brightness", "background_redshift", "background_doppler",
     "quality_preset", "max_iterations", "step_size", "adaptive_stepping"}
\* The members of it that Renderer::Renderer assigns; every member the GUI
\* writes is among them
ConstructorAssigns ==
    {"time", "gravity", "disk_radius", "disk_thickness", "black_hole_size",
     "camera_distance", "observer_position", "observer_velocity", "show_orbiting_star",
     "star_orbit_radius", "star_orbit_speed", "star_brightness", "background_redshift",
     "background_doppler", "quality_preset", "max_iterations", "step_size",
     "adaptive_stepping"}
\* The members draw assigns before it hands the block to setBytes
DrawAssigns == {"time", "resolution"}

ConstructedHost ==
    applyVisualPreset([time |-> 0, gravity |-> Fx(5, 2), visualPreset |-> 0,
                       assigned |-> ConstructorAssigns,
                       quality_preset |-> ConstructedUniforms(AllSet).quality_preset,
                       max_iterations |-> ConstructedUniforms(AllSet).max_iterations,
                       step_size |-> ConstructedUniforms(AllSet).step_size,
                       adaptive_stepping |-> ConstructedUniforms(AllSet).adaptive_stepping,
                       bloomStrength |-> 0, bloomThreshold |-> 0, tonemapGamma |-> 0,
                       tonemappingEnabled |-> FALSE], 0)

\* The stages draw encodes that take parameters, in order
Stages == <<"raymarcher", "brightness", "composite", "tonemapping">>
\* What setBytes is given for a stage, from the members h
Bytes(stage, h) ==
    CASE stage = "raymarcher" ->
             [time |-> h.time, gravity |-> h.gravity, max_iterations |-> h.max_iterations,
              step_size |-> h.step_size, adaptive_stepping |-> h.adaptive_stepping]
      [] stage = "brightness" -> h.bloomThreshold
      [] stage = "composite" -> h.bloomStrength
      [] stage = "tonemapping" -> <<h.tonemapGamma, h.tonemappingEnabled>>
\* Renderer::draw, passes 1 to 3 of frame n: setBytes copies the bytes into the
\* command buffer when the pass is encoded
Encode(h, n) ==
    [k \in DOMAIN Stages |->
        [frame |-> n, stage |-> Stages[k], bytes |-> Bytes(Stages[k], h)]]

\* A variant of the binding that has the kernel read the Renderer's members
StageReadsLive(bytes, live) == live
\* constant T& name [[buffer(n)]]: a kernel reads the bytes bound to its pass
StageReads(bytes, live) == bytes

InitHost ==
    /\ host = ConstructedHost
    /\ hpc = "idle"
    /\ build = <<>>
    /\ inflight = <<>>
    /\ frames = <<>>
    /\ RayIdle /\ ShadeIdle /\ FrameIdle /\ ImageIdle /\ GridIdle /\ CollideIdle

\* Renderer::draw up to the GUI: take a drawable, advance the time, encode the
\* passes
BeginDraw ==
    /\ hpc = "idle"
    /\ Len(frames) < MaxHostFrames
    /\ Len(inflight) < MaxInFlight
    /\ host' = [host EXCEPT !.time = AdvanceTime(@), !.assigned = @ \cup DrawAssigns]
    /\ build' = Encode(host', Len(frames) + 1)
    /\ frames' = Append(frames, [atEncode |-> host', atCommit |-> None, reads |-> <<>>])
    /\ hpc' = "gui"
    /\ UNCHANGED <<inflight, rayVars, shadeVars, frameVars, imageVars, gridVars, collideVars>>

\* The GUI of this frame has not changed a member yet
Untouched == hpc = "gui" /\ host = frames[Len(frames)].atEncode
\* The GUI has written the members h
Edited(h) ==
    /\ host' = h
    /\ UNCHANGED <<hpc, build, inflight, frames, rayVars, shadeVars, frameVars, imageVars,
                   gridVars, collideVars>>

\* The Gravity slider, 0.1..10
SetGravity ==
    /\ Untouched
    /\ \E g \in {Fx(5, 2), 3 * One} \ {host.gravity} : Edited([host EXCEPT !.gravity = g])
\* The visual preset combo
SelectVisualPreset ==
    /\ Untouched
    /\ \E preset \in {0, 1, 2} \ {host.visualPreset} : Edited(applyVisualPreset(host, preset))
\* The "Enable Tone Mapping" checkbox
ToggleToneMapping ==
    /\ Untouched
    /\ Edited([host EXCEPT !.tonemappingEnabled = ~@])

\* The quality preset combo
SelectQualityPreset ==
    /\ Untouched
    /\ \E preset \in 0..3 \ {host.quality_preset} : Edited(applyQualityPreset(host, preset))
\* The Max Iterations slider, 64..1024
SetMaxIterations ==
    /\ Untouched
    /\ \E n \in {64, 1024} \ {host.max_iterations} : Edited([host EXCEPT !.max_iterations = n])

\* presentDrawable and commit
Commit ==
    /\ hpc = "gui"
    /\ inflight' = Append(inflight, build)
    /\ build' = <<>>
    /\ frames' = [frames EXCEPT ![Len(frames)].atCommit = host]
    /\ hpc' = "idle"
    /\ UNCHANGED <<host, rayVars, shadeVars, frameVars, imageVars, gridVars, collideVars>>

\* The GPU runs the next pass of the oldest command buffer
RunStage ==
    /\ hpc \in {"idle", "gui"}
    /\ inflight # <<>>
    /\ \E s \in {Head(Head(inflight))} :
          frames' = [frames EXCEPT ![s.frame].reads =
                        Append(@, [stage |-> s.stage,
                                   bytes |-> StageReads(s.bytes, Bytes(s.stage, host))])]
    /\ inflight' = IF Len(Head(inflight)) = 1
                   THEN Tail(inflight)
                   ELSE <<Tail(Head(inflight))>> \o Tail(inflight)
    /\ UNCHANGED <<host, hpc, build, rayVars, shadeVars, frameVars, imageVars, gridVars, collideVars>>

NextHost ==
    \/ BeginDraw \/ SetGravity \/ SelectVisualPreset \/ ToggleToneMapping
    \/ SelectQualityPreset \/ SetMaxIterations
    \/ Commit \/ RunStage

SpecHost == InitHost /\ [][NextHost]_vars

\* ------------------------------------------------------------------------
\* One dispatch of computeShader: a thread per pixel
\* ------------------------------------------------------------------------

\* dispatchThreads:gridSize with the size of the scene texture, which is also
\* uniforms.resolution
Grid == (0..(Res - 1)) \X (0..(Res - 1))
\* What a texel holds before the dispatch
Stale == "stale"

\* if (gid.x >= uint(uniforms.resolution.x) || gid.y >= uint(uniforms.resolution.y))
OutsideResolution(g) == g[1] >= Res \/ g[2] >= Res
\* fragColor = rayMarch(cameraPos, dir, uniforms.time, uniforms): a function of
\* its arguments, kept here as the arguments themselves
FragColor(uu, g) == [cameraPos |-> CameraPos(uu), dir |-> RayDir(uu, g), uniforms |-> uu]
\* A variant of the write that lands in the first row
OutputSlotFirstRow(g) == <<g[1], 0>>
\* output.write(fragColor, gid)
OutputSlot(g) == g

\* Ends of the "Distance from Black Hole" slider
CameraDistances == {3 * One, 20 * One}
\* Positions of the observer Position (X, Y, Z) sliders: on each axis, off the
\* axes, and one too close to the origin to be taken as the camera position
ObserverPositions ==
    {<<10 * One, 0, 0>>, <<0, 5 * One, 0>>, <<0, -10 * One, 0>>, <<0, 0, -10 * One>>,
     <<3 * One, 4 * One, 0>>, <<-10 * One, 10 * One, 10 * One>>, <<0, Fx(5, 100), 0>>}

InitGrid ==
    /\ snap \in {ConstructedUniforms(AllSet),
                 ShortMarch(ConstructedUniforms(AllSet)),
                 SetObserver(ShortMarch(ConstructedUniforms(AllSet)), <<0, 0, Fx(1, 2)>>)}
                \cup {SetCameraDistance(ConstructedUniforms(AllSet), d) : d \in CameraDistances}
                \cup {SetObserver(ConstructedUniforms(AllSet), p) : p \in ObserverPositions}
    /\ thread = [g \in Grid |-> [at |-> "start", fragColor |-> None]]
    /\ out = [g \in Grid |-> Stale]
    /\ wlog = [g \in Grid |-> <<>>]
    /\ RayIdle /\ ShadeIdle /\ FrameIdle /\ ImageIdle /\ HostIdle /\ CollideIdle

\* A thread runs computeShader up to the write: the bounds test, the camera
\* setup and rayMarch, from the bound uniforms and its own gid
ComputePixel ==
    \E g \in Grid :
        /\ thread[g].at = "start"
        /\ thread' = [thread EXCEPT ![g] =
                         IF OutsideResolution(g)
                         THEN [at |-> "done", fragColor |-> None]
                         ELSE [at |-> "write", fragColor |-> FragColor(snap, g)]]
        /\ UNCHANGED <<snap, out, wlog, rayVars, shadeVars, frameVars, imageVars, hostVars, collideVars>>

\* A thread's output.write(fragColor, gid)
WritePixel ==
    \E g \in Grid :
        /\ thread[g].at = "write"
        /\ out' = [out EXCEPT ![OutputSlot(g)] = thread[g].fragColor]
        /\ wlog' = [wlog EXCEPT ![OutputSlot(g)] = Append(@, g)]
        /\ thread' = [thread EXCEPT ![g].at = "done"]
        /\ UNCHANGED <<snap, rayVars, shadeVars, frameVars, imageVars, hostVars, collideVars>>

NextGrid == ComputePixel \/ WritePixel

SpecGrid == InitGrid /\ [][NextGrid]_vars

\* ------------------------------------------------------------------------
\* One dispatch of processParticleCollisions: a thread per particle
\* ------------------------------------------------------------------------

\* uniforms.max_particles
MaxParticles == 3
\* thread_position_in_grid: one thread per particle and one beyond the buffer
Workers == 0..MaxParticles
Slots == 0..(MaxParticles - 1)
\* float restitution = 0.7
restitution == Fx(7, 10)
PARTICLE_MASS_GAS == One
PARTICLE_MASS_DEBRIS == 5 * One

\* The mass-weighted sum of the velocities of slots 0..(n - 1)
RECURSIVE MomentumUpTo(_, _)
MomentumUpTo(ps, n) ==
    IF n = 0 THEN Zero3
    ELSE AddV(MomentumUpTo(ps, n - 1), ScaleV(ps[n - 1].mass, ps[n - 1].velocity))
Momentum(ps) == MomentumUpTo(ps, MaxParticles)

\* Particles in a row along x, each moving towards the next; neighbours overlap
\* when the spacing is below (size + size) * 1.5
Row(spacing, middleMass, lastActive) ==
    [k \in Slots |->
        [position |-> <<k * spacing, 0, 0>>,
         velocity |-> <<One - k * One, 0, 0>>,
         mass |-> IF k = 1 THEN middleMass ELSE PARTICLE_MASS_GAS,
         size |-> Fx(1, 10),
         temperature |-> 5000 * One,
         is_active |-> (k < MaxParticles - 1 \/ lastActive)]]

InitCollide ==
    /\ particles \in {Row(spacing, mass, active) :
                          spacing \in {Fx(2, 10), Fx(5, 10)},
                          mass \in {PARTICLE_MASS_GAS, PARTICLE_MASS_DEBRIS},
                          active \in BOOLEAN}
    /\ worker = [t \in Workers |->
                    [at |-> "start", i |-> 0, normal |-> Zero3, impulse |-> 0,
                     loaded |-> Zero3]]
    /\ before = Momentum(particles)
    /\ RayIdle /\ ShadeIdle /\ FrameIdle /\ ImageIdle /\ HostIdle /\ GridIdle

\* if (index >= maxParticles) return; if (!particle1.is_active) return;
Enter ==
    \E t \in Workers :
        /\ worker[t].at = "start"
        /\ worker' = [worker EXCEPT ![t] =
                         IF t >= MaxParticles \/ ~particles[t].is_active
                         THEN [@ EXCEPT !.at = "done"]
                         ELSE [@ EXCEPT !.at = "pair", !.i = t + 1]]
        /\ UNCHANGED <<particles, before, rayVars, shadeVars, frameVars, imageVars, hostVars, gridVars>>

\* The head of the loop over i and the distance test of the pair (index, i)
Detect ==
    \E t \in Workers :
        /\ worker[t].at = "pair"
        /\ LET w == worker[t]
           IN  IF w.i >= Min(t + 100, MaxParticles)
               THEN worker' = [worker EXCEPT ![t].at = "done"]
               ELSE IF ~particles[w.i].is_active
               THEN worker' = [worker EXCEPT ![t].i = @ + 1]
               ELSE LET separation == SubV(particles[t].position, particles[w.i].position)
                        distance == Length(separation)
                        minDistance == Mul(particles[t].size + particles[w.i].size, Fx(3, 2))
                    IN  IF distance < minDistance /\ distance > 0
                        THEN worker' = [worker EXCEPT
                                           ![t].at = "relative",
                                           ![t].normal = <<Div(separation[1], distance),
                                                           Div(separation[2], distance),
                                                           Div(separation[3], distance)>>]
                        ELSE worker' = [worker EXCEPT ![t].i = @ + 1]
        /\ UNCHANGED <<particles, before, rayVars, shadeVars, frameVars, imageVars, hostVars, gridVars>>

\* relativeVelocity, velocityAlongNormal and impulse: reads both velocities
Relative ==
    \E t \in Workers :
        /\ worker[t].at = "relative"
        /\ LET w == worker[t]
               totalMass == particles[t].mass + particles[w.i].mass
               relativeVelocity == SubV(particles[t].velocity, particles[w.i].velocity)
               velocityAlongNormal == Dot(relativeVelocity, w.normal)
           IN  IF velocityAlongNormal > 0
               THEN worker' = [worker EXCEPT ![t].at = "pair", ![t].i = @ + 1]
               ELSE worker' = [worker EXCEPT
                                  ![t].at = "load1",
                                  ![t].impulse =
                                      Div(Mul(-(One + restitution), velocityAlongNormal),
                                          totalMass)]
        /\ UNCHANGED <<particles, before, rayVars, shadeVars, frameVars, imageVars, hostVars, gridVars>>

\* particle1.velocity += impulse * particle2.mass * normal: the read
Load1 ==
    \E t \in Workers :
        /\ worker[t].at = "load1"
        /\ worker' = [worker EXCEPT ![t].at = "store1", ![t].loaded = particles[t].velocity]
        /\ UNCHANGED <<particles, before, rayVars, shadeVars, frameVars, imageVars, hostVars, gridVars>>

\* particle1.velocity += impulse * particle2.mass * normal: the write
Store1 ==
    \E t \in Workers :
        /\ worker[t].at = "store1"
        /\ LET w == worker[t]
           IN  particles' = [particles EXCEPT ![t].velocity =
                                AddV(w.loaded,
                                     ScaleV(Mul(w.impulse, particles[w.i].mass), w.normal))]
        /\ worker' = [worker EXCEPT ![t].at = "load2"]
        /\ UNCHANGED <<before, rayVars, shadeVars, frameVars, imageVars, hostVars, gridVars>>

\* particle2.velocity -= impulse * particle1.mass * normal: the read
Load2 ==
    \E t \in Workers :
        /\ worker[t].at = "load2"
        /\ worker' = [worker EXCEPT ![t].at = "store2",
                                    ![t].loaded = particles[worker[t].i].velocity]
        /\ UNCHANGED <<particles, before, rayVars, shadeVars, frameVars, imageVars, hostVars, gridVars>>

\* particle2.velocity -= impulse * particle1.mass * normal: the write
Store2 ==
    \E t \in Workers :
        /\ worker[t].at = "store2"
        /\ LET w == worker[t]
           IN  particles' = [particles EXCEPT ![w.i].velocity =
                                SubV(w.loaded,
                                     ScaleV(Mul(w.impulse, particles[t].mass), w.normal))]
        /\ worker' = [worker EXCEPT ![t].at = "heat"]
        /\ UNCHANGED <<before, rayVars, shadeVars, frameVars, imageVars, hostVars, gridVars>>

\* The energy exchange: both temperatures rise by 0.1 * abs(impulse) * 500; the
\* colours are temperatureToColor of the temperatures and are not kept apart
\* from them
Heat ==
    \E t \in Workers :
        /\ worker[t].at = "heat"
        /\ LET w == worker[t]
               energyTransfer == Mul(Fx(1, 10), Abs(w.impulse))
           IN  particles' = [particles EXCEPT
                                ![t].temperature = @ + Mul(energyTransfer, 500 * One),
                                ![w.i].temperature = @ + Mul(energyTransfer, 500 * One)]
        /\ worker' = [worker EXCEPT ![t].at = "pair", ![t].i = @ + 1]
        /\ UNCHANGED <<before, rayVars, shadeVars, frameVars, imageVars, hostVars, gridVars>>

NextCollide ==
    Enter \/ Detect \/ Relative \/ Load1 \/ Store1 \/ Load2 \/ Store2 \/ Heat

SpecCollide == InitCollide /\ [][NextCollide]_vars

\* ------------------------------------------------------------------------
\* Properties of the ray marcher
\* ------------------------------------------------------------------------

\* Inside the event horizon: squared position magnitude below 1
InsideHorizon(p) == Dot(p, p) < One
Terminal == {"captured", "escaped", "opaque", "maxiter"}

\* C1: in every iteration the capture check comes right after the integration
\* step and before the disk model, so the disk model is never invoked at a
\* position with squared magnitude < 1; a captured ray is finished at once, with
\* the colour accumulated so far and no further disk or background contribution.
C1_CaptureBeforeDisk ==
    /\ pc = "disk" => ~InsideHorizon(pos)
    /\ hist.diskCalls > 0 => ~InsideHorizon(hist.diskAt)
    /\ pc \in {"capture", "disk"} => hist.diskCalls = hist.steps - 1
    /\ pc \in {"integrate", "exits"} => hist.diskCalls = hist.steps
    /\ term = "captured" =>
          /\ pc = "done" /\ InsideHorizon(pos)
          /\ hist.diskCalls = hist.steps - 1
          /\ color = hist.emitted /\ ~hist.background

\* A ray captured after the disk model has run on it
C1_Witness ==
    /\ term = "captured" /\ pc = "done"
    /\ hist.steps > 1 /\ hist.diskCalls = hist.steps - 1

\* C2: the acceleration law is never evaluated at a position inside the event
\* horizon, whatever the camera position and the integrator stage.
C2_LawOutsideHorizon == \A k \in DOMAIN hist.at : ~InsideHorizon(hist.at[k])

\* C3: the march performs at most max_iterations (64..1024) integration steps and
\* ends in exactly one of the four terminal states, after which no integration
\* step and no disk evaluation can happen.
C3_BoundedMarch ==
    /\ u.max_iterations \in 64..1024
    /\ hist.steps <= u.max_iterations
    /\ term \in Terminal \cup {"marching"}
    /\ term \in Terminal <=> pc \in {"background", "done"}
    /\ term = "maxiter" => hist.steps = u.max_iterations
    /\ term \in Terminal => ~ENABLED Integrate /\ ~ENABLED DiskRender

\* A ray that used up all its iterations
C3_Witness == pc = "done" /\ term = "maxiter" /\ hist.steps = u.max_iterations

\* C4: along one ray the accumulated alpha stays within [0, 1].
C4_AlphaInUnitRange == alpha >= 0 /\ alpha <= One

\* C5: angularMomentumSquared is computed once, from the initial position and
\* direction, and every integration step of the ray uses that value.
C5_AngularMomentumFixed ==
    pc # "launch" =>
        /\ hist.origin = CameraPos(u) /\ hist.dir0 = RayDir(u, gid)
        /\ h2 = AngularMomentumSquared(hist.origin, hist.dir0)
        /\ hist.steps > 0 => hist.h2 = h2

\* A ray, some steps on, whose current position and direction would give another value
C5_Witness ==
    /\ hist.steps >= 2 /\ h2 > 0 /\ hist.h2 = h2
    /\ AngularMomentumSquared(pos, dir) # h2

\* C6: each step is advanced by the integrator that the Parameter Block's
\* integration method selects (0 = Verlet, 1 = RK4).
C6_SelectedIntegrator == hist.steps > 0 => hist.method = u.integration_method

\* ------------------------------------------------------------------------
\* Properties of the shading functions
\* ------------------------------------------------------------------------

\* C7: the redshift function returns exactly 0 for every position with |p| <= 1,
\* a position at exactly r = 1 included.
C7_RedshiftZeroUpToHorizon ==
    ("redshift" \in shade.evaluated /\ Length(sample.pos) <= One) => shade.redshift = 0

\* Where the disk model can evaluate the shading functions: |p| >= 1, inside
\* the disk bounds of the Parameter Block
InDiskOutsideHorizon(smp) == Length(smp.pos) >= One /\ ~OutsideDisk(smp.pos, smp.u)

\* C8: redshift and Doppler return a finite value at every point with |p| >= 1
\* inside the disk bounds, so the disk temperature and colour are finite too; for
\* |p| < 1 they return 0 and 1.
C8_ShadingTotal ==
    /\ ("redshift" \in shade.evaluated /\ InDiskOutsideHorizon(sample)) =>
           Finite(shade.redshift)
    /\ ("doppler" \in shade.evaluated /\ InDiskOutsideHorizon(sample)) =>
           Finite(shade.doppler)
    /\ ("dustColor" \in shade.evaluated /\ InDiskOutsideHorizon(sample)) =>
           Finite(shade.temp) /\ \A ch \in 1..4 : Finite(shade.dustColor[ch])
    /\ ("redshift" \in shade.evaluated /\ Length(sample.pos) < One) => shade.redshift = 0
    /\ ("doppler" \in shade.evaluated /\ Length(sample.pos) < One) => shade.doppler = One

\* ------------------------------------------------------------------------
\* Properties of the frame
\* ------------------------------------------------------------------------

\* Position of a stage in the pipeline order: Ray Marcher, Brightness Extraction,
\* Downsample by increasing level, Upsample by decreasing level, Composite, Tone
\* Mapping, and the copy to the drawable
Rank(st) ==
    CASE st[1] = "raymarcher" -> 0
      [] st[1] = "brightness" -> 1
      [] st[1] = "downsample" -> 2 + st[2]
      [] st[1] = "upsample" -> 20 - st[2]
      [] st[1] = "composite" -> 30
      [] st[1] = "tonemapping" -> 31
      [] st[1] = "blit" -> 32
InPipelineOrder(ran) ==
    \A a, b \in DOMAIN ran : a < b => Rank(ran[a]) < Rank(ran[b])
FrameComplete == fpc = "gpu" /\ queue = <<>>

\* C9: within one frame the stages run in the pipeline order, and every buffer a
\* stage reads has been written by an earlier stage of that same frame.
C9_OrderedAndWritten == InPipelineOrder(gpu.ran) /\ gpu.stale = {}

\* C10: with a texture or pipeline state absent, no stage is bound to the absent
\* resource, and the affected stage passes its input on, so that the frame that
\* is presented still carries this frame's image.
C10_DegradesToCopy ==
    /\ gpu.absentUse = {}
    /\ FrameComplete => Drawable \in gpu.fresh

\* Level i of the pyramid fits a width x height surface at depth setting d:
\* i < clamp(d, 1, 8), and both halved dimensions stay >= 2 for every k <= i
LevelFits(lvl, width, height, d) ==
    /\ lvl < Min(Max(d, 1), 8)
    /\ \A k \in 0..lvl : /\ width \div (2 ^ (k + 1)) >= 2
                         /\ height \div (2 ^ (k + 1)) >= 2
Reallocated == ~rsrc.dirty /\ rsrc.width # 0
LevelAllocated(lvl) == Down(lvl) \in rsrc.tex /\ Up(lvl) \in rsrc.tex
LevelNull(lvl) == Down(lvl) \notin rsrc.tex /\ Up(lvl) \notin rsrc.tex

C12_UpsampleAddsLargerLevel ==
    \A n \in DOMAIN queue :
        queue[n].stage = "upsample" =>
            /\ TextureSize(queue[n].slots[2], rsrc) = TextureSize(queue[n].slots[3], rsrc)
            /\ queue[n].slots[1] # queue[n].slots[2]
\* ------------------------------------------------------------------------
\* Properties of the pixels
\* ------------------------------------------------------------------------

PassDone(stage) == \A n \in DOMAIN todo : todo[n].stage # stage
ZeroRGB(img) == \A g \in DOMAIN img : img[g][1] = 0 /\ img[g][2] = 0 /\ img[g][3] = 0
ZeroScene == ZeroRGB(opt.scene)

\* C13: for an all-zero HDR scene the bloom pipeline yields an all-zero bloom
\* contribution: once the composite has run, every pixel it wrote has RGB zero,
\* and so has every pixel of the bloom pyramid.
C13_ZeroSceneZeroBloom ==
    (opt.bloomEnabled /\ ZeroScene /\ PassDone("composite")) =>
        \A t \in DOMAIN image \ {Final, Drawable} : ZeroRGB(image[t])

\* An all-zero scene composited through a two-level pyramid at full strength
C13_Witness ==
    /\ opt.bloomEnabled /\ ZeroScene /\ PassDone("composite")
    /\ opt.strength = One /\ opt.threshold = Fx(1, 2) /\ Up(1) \in DOMAIN image
    /\ ZeroRGB(image[BloomFinal])

\* Alpha 1.0 as the 8-bit drawable stores it
Opaque8 == Unorm8(<<0, 0, 0, One>>)[4]
FrameDone == todo = <<>>

BackgroundAdded ==
    /\ hist.background
    /\ hist.skyDir = dir
    /\ \E starNoise \in NoiseSamples, tint \in NoiseSamples :
           color = AddSky(hist.emitted, SkyColor(pos, starNoise, tint))

\* C18: a ray whose loop used up maxIterations without a capture, opacity or
\* escape exit gets the background exactly as a ray that escaped does: the
\* starfield at its current direction, added to its colour.
C18_ExhaustionIsEscape ==
    (pc = "done" /\ term \in {"maxiter", "escaped"}) => BackgroundAdded

\* A ray that marched all its iterations and then got the starfield
C18_Witness ==
    /\ pc = "done" /\ term = "maxiter"
    /\ i = u.max_iterations /\ hist.steps = u.max_iterations /\ hist.steps > 1
    /\ ~Escaped(pos) /\ ~Opaque(alpha)
    /\ BackgroundAdded

\* ------------------------------------------------------------------------
\* Properties of the disk's toggles
\* ------------------------------------------------------------------------

\* C19: when the Parameter Block's disk_enabled is off the disk contributes
\* nothing: no marching iteration modifies the accumulated colour or alpha.
C19_DiskOffContributesNothing ==
    (u.disk_enabled = FALSE /\ pc \in {"exits", "integrate", "capture", "disk"}) =>
        /\ color = [ch \in 1..4 |-> 0]
        /\ alpha = One

\* What one call of diskRender adds to the colour
Contribution(p, a, viewDir, uu, ns, keepNaN) ==
    [ch \in 1..4 |->
        Emission(FullDensity(p, uu),
                 getBlackBodyColor(FMul(DiskTemperature(p, viewDir), calculateRedShift(p)),
                                   keepNaN)[ch],
                 a, NoiseProduct(ns, diskNoiseLOD))]
\* pow(doppler, 3.0)
DopplerCubed(p, viewDir) ==
    FMul(FMul(calculateDopplerEffect(p, viewDir), calculateDopplerEffect(p, viewDir)),
         calculateDopplerEffect(p, viewDir))

\* C20: with beaming_enabled set, what a call of diskRender adds to the colour
\* is the disk's contribution multiplied by the cube of the Doppler factor; with
\* it clear, the contribution as it is.
C20_BeamingScalesContribution ==
    [][(pc = "disk" /\ ~DiskSkips(pos, u)) =>
          \E ns \in [1..(diskNoiseLOD - 1) -> NoiseSamples], keepNaN \in BOOLEAN :
              color' = [ch \in 1..4 |->
                           FAdd(color[ch],
                                IF u.beaming_enabled
                                THEN FMul(Contribution(pos, alpha, dir, u, ns, keepNaN)[ch],
                                          DopplerCubed(pos, dir))
                                ELSE Contribution(pos, alpha, dir, u, ns, keepNaN)[ch])]]_vars

\* ------------------------------------------------------------------------
\* Properties of the parameters from frame to frame
\* ------------------------------------------------------------------------

\* The members without the time, which draw itself advances
Settings(h) == [h EXCEPT !.time = 0]

\* C15: the parameters a frame's stages consume are a snapshot taken when the
\* frame is encoded: every stage that ran read what the members held then,
\* whatever the GUI did to them afterwards, and what the GUI did during one
\* frame is what the next frame is encoded with.
C15_SnapshotBeforeDispatch ==
    \A n \in DOMAIN frames :
        /\ \A k \in DOMAIN frames[n].reads :
              frames[n].reads[k].bytes = Bytes(frames[n].reads[k].stage, frames[n].atEncode)
        /\ n > 1 => Settings(frames[n].atEncode) = Settings(frames[n - 1].atCommit)

\* A preset was applied while frame 1 was built, all the stages of frame 1 ran
\* after it, and frame 2 was encoded with the preset's values
C15_Witness ==
    /\ Len(frames) >= 2
    /\ frames[1].atCommit # frames[1].atEncode
    /\ frames[1].atCommit.visualPreset = 2
    /\ Len(frames[1].reads) = Len(Stages)
    /\ frames[1].reads[3].bytes = Fx(12, 100)
    /\ frames[2].atEncode.bloomStrength = Fx(7, 100)
    /\ frames[2].reads # <<>>

C16_OwnPixelOnce ==
    \A g \in Grid :
        IF thread[g].at = "done"
        THEN wlog[g] = <<g>> /\ out[g] = FragColor(snap, g)
        ELSE wlog[g] = <<>> /\ out[g] = Stale

\* The last thread of the grid has written its pixel before the first thread has
\* started, and a thread in between is about to write
C16_Witness ==
    /\ thread[<<Res - 1, Res - 1>>].at = "done"
    /\ out[<<Res - 1, Res - 1>>] = FragColor(snap, <<Res - 1, Res - 1>>)
    /\ thread[<<0, 0>>].at = "start"
    /\ thread[<<0, Res - 1>>].at = "write"
    /\ out[<<0, 0>>] = Stale

\* ------------------------------------------------------------------------
\* Properties of the background
\* ------------------------------------------------------------------------

\* The sky with its stars as they are: base colour, star colour, tint
UnshiftedSky(starNoise, tint) ==
    ScaleV(One + Mul(Fx(3, 10), tint),
           IF starNoise > Fx(8, 10)
           THEN AddV(<<Fx(5, 1000), Fx(1, 100), Fx(2, 100)>>,
                     ScaleV(5 * One, ScaleV(starNoise - Fx(8, 10),
                                            <<Fx(8, 10), Fx(9, 10), One>>)))
           ELSE <<Fx(5, 1000), Fx(1, 100), Fx(2, 100)>>)

\* C21: on the escape path the starlight is shifted only when the background
\* toggle is on: with background_redshift off, the colour an escaped ray returns
\* is its colour with the unshifted sky added.
C21_BackgroundUnshiftedWhenOff ==
    (pc = "done" /\ term = "escaped" /\ u.background_redshift = FALSE) =>
        \E starNoise \in NoiseSamples, tint \in NoiseSamples :
            color = AddSky(hist.emitted, UnshiftedSky(starNoise, tint))

\* A ray that escaped with the toggle off and got a star
C21_Witness ==
    /\ pc = "done" /\ term = "escaped" /\ u.background_redshift = FALSE
    /\ Escaped(pos) /\ hist.background
    /\ \E tint \in NoiseSamples : color = AddSky(hist.emitted, UnshiftedSky(One, tint))
    /\ \A tint \in NoiseSamples : color # AddSky(hist.emitted, UnshiftedSky(-One, tint))

\* ------------------------------------------------------------------------
\* Properties of the quality presets
\* ------------------------------------------------------------------------

\* (max iterations, step size, adaptive stepping) of Low, Medium, High, Ultra
QualityTable ==
    <<<<128, Fx(15, 100), FALSE>>, <<192, Fx(12, 100), TRUE>>,
      <<256, Fx(1, 10), TRUE>>, <<512, Fx(8, 100), TRUE>>>>
Quality(h) == <<h.max_iterations, h.step_size, h.adaptive_stepping>>

\* C22: applying the preset Low, Medium, High or Ultra sets (max iterations,
\* step size, adaptive stepping) to its row of the table; the Renderer starts
\* at High; and max iterations stays within 64..1024 whatever is applied.
C22_QualityPresets ==
    /\ (host.quality_preset = 2 /\ Quality(host) = QualityTable[3])
    /\ [][host'.quality_preset # host.quality_preset =>
             Quality(host') = QualityTable[host'.quality_preset + 1]]_vars
    /\ [](host.max_iterations >= 64 /\ host.max_iterations <= 1024)

\* Ultra applied in one frame and Low in a later one, the slider used in between
C22_Witness ==
    /\ Len(frames) = MaxHostFrames
    /\ frames[1].atCommit.quality_preset = 3 /\ frames[1].atCommit.max_iterations = 512
    /\ frames[2].atCommit.max_iterations = 1024
    /\ host.quality_preset = 0 /\ Quality(host) = QualityTable[1]

\* ------------------------------------------------------------------------
\* Properties of rays handed to rayMarch directly
\* ------------------------------------------------------------------------

LoopLeft == pc \in {"background", "done"}
RadialFromTwo ==
    /\ [pos |-> hist.origin, dir |-> hist.dir0] \in RadialRays
    /\ u.gravity = One /\ u.step_size = Fx(1, 10)
AxialFromTwenty ==
    /\ [pos |-> hist.origin, dir |-> hist.dir0] \in AxialRays
    /\ u.gravity = One

\* C23 as stated: a ray launched from r = 2 straight at the origin, gravity 1.0,
\* step size 0.1, adaptive stepping on or off, ends captured after fewer than 50
\* iterations.
C23_RadialRayCaptured ==
    RadialFromTwo => hist.steps < 50 /\ (LoopLeft => term = "captured")

\* C23, amended: the same, for a disk whose inner radius (25 times the Event
\* Horizon Size) is at least 2, so that no sample of the ray is inside the disk.
C23_RadialRayCapturedClearOfDisk ==
    (RadialFromTwo /\ innerRadius(u) >= 2 * One) =>
        hist.steps < 50 /\ (LoopLeft => term = "captured")

\* The ray in the disk's plane, adaptive stepping on, captured in its 21st
\* iteration with nothing accumulated
C23_Witness ==
    /\ RadialFromTwo /\ innerRadius(u) >= 2 * One
    /\ hist.origin = <<0, 0, 2 * One>> /\ u.adaptive_stepping
    /\ pc = "done" /\ term = "captured" /\ hist.steps = 21
    /\ Captured(pos) /\ alpha = One

\* C24 as stated: a ray launched on the disk's axis at radius 20, travelling
\* along the axis, gravity 1.0, ends escaped, and until then the disk model
\* rejects every sample: colour and alpha stay as they were.
C24_AxialRayEscapes ==
    AxialFromTwenty =>
        /\ LoopLeft => term = "escaped"
        /\ hist.emitted = [ch \in 1..4 |-> 0] /\ alpha = One

\* C24, amended: the ray ends escaped when max iterations times step size
\* exceeds the 80 it has to travel, and by using up its iterations otherwise; in
\* both cases it gets the background, and the disk model rejects every sample.
C24_AxialRayLeavesUntouched ==
    AxialFromTwenty =>
        /\ LoopLeft => term = (IF u.max_iterations * u.step_size > 80 * One
                               THEN "escaped" ELSE "maxiter")
        /\ pc = "done" => hist.background
        /\ hist.emitted = [ch \in 1..4 |-> 0] /\ alpha = One

\* The ray escaped in its 401st iteration of step 0.2, every disk call having
\* rejected its sample
C24_Witness ==
    /\ AxialFromTwenty /\ u.max_iterations = 1024 /\ u.step_size = Fx(2, 10)
    /\ pc = "done" /\ term = "escaped" /\ Escaped(pos) /\ hist.steps = 401
    /\ hist.diskCalls = 401 /\ hist.emitted = [ch \in 1..4 |-> 0] /\ alpha = One
    /\ hist.background
\* ------------------------------------------------------------------------
\* Continuity of the temperature-to-colour function
\* ------------------------------------------------------------------------

\* The largest change of a channel tolerated between two temperatures a
\* thousandth of a kelvin apart
Jump == Fx(1, 100)

\* C25: the temperature-to-colour function makes no discontinuous jump at its
\* piecewise boundaries: the colour of a temperature and the colour of the
\* temperature a thousandth of a kelvin above it differ by at most Jump in
\* every channel.
C25_ColorContinuous ==
    "blackBody" \in shade.evaluated =>
        \A ch \in 1..4 :
            Abs(shade.blackBody[ch] - getBlackBodyColor(shade.kelvin + 1, FALSE)[ch]) <= Jump
\* ------------------------------------------------------------------------
\* The camera of a dispatch
\* ------------------------------------------------------------------------

\* The observer position the constructor and "Reset to Default" assign
DefaultObserver == ConstructedUniforms(AllSet).observer_position
\* The threads that have run the camera setup and rayMarch
Marched == {g \in Grid : thread[g].at # "start" /\ thread[g].fragColor # None}

\* C26: with the observer position left at its default, the rays of a frame
\* originate at the distance from the origin that Camera Distance holds.
C26_CameraDistanceSetsOrigin ==
    \A g \in Marched :
        snap.observer_position = DefaultObserver =>
            Length(thread[g].fragColor.cameraPos) = snap.camera_distance

\* C30: for every observer position of the sliders that is taken as the camera
\* position (length > 0.1), forward is non-zero and cross(up, forward) is
\* non-zero, so the ray direction is built without normalising a zero vector.
C30_CameraBasisDefined ==
    \A g \in Marched :
        Length(snap.observer_position) > Fx(1, 10) =>
            /\ Forward(snap) # Zero3
            /\ Sideways(snap) # Zero3
            /\ \A k \in 1..3 : Finite(thread[g].fragColor.dir[k])
\* ------------------------------------------------------------------------
\* The extent of the disk
\* ------------------------------------------------------------------------

\* Sample positions at every half of the radius the sliders allow, a hundredth
\* above the plane of the disk
DiskProbes == {<<Fx(k, 2), Fx(1, 100), 0>> : k \in 0..40}
\* Some probe position passes the bounds test of diskRender
DiskNonEmpty(uu) == \E p \in DiskProbes : ~OutsideDisk(p, uu)

Collided == \A t \in Workers : worker[t].at = "done"

\* C28: the collision pass conserves momentum in every interleaving of its
\* threads: when the dispatch is over the mass-weighted sum of the velocities is
\* what it was when the dispatch began.
C28_MomentumConserved == Collided => Momentum(particles) = before
\* ------------------------------------------------------------------------
\* Initialisation of the Parameter Block
\* ------------------------------------------------------------------------

\* C29: every member of the Parameter Block has been assigned by the host when
\* the first frame's snapshot is taken, the integration method and the disk,
\* Doppler, redshift, beaming and realistic-temperature toggles included.
C29_AllMembersAssigned ==
    Len(frames) >= 1 => UniformsMembers \subseteq frames[1].atEncode.assigned
====
